---- MODULE Spec2Model ----
(***************************************************************************)
(* Verification model of astrbot_plugin_qzone: the scheduled publication   *)
(* pipeline (core/auto_publish.py), the quality gate (core/llm_action.py), *)
(* the failure classifier, and the usage quota manager                     *)
(* (core/surfing_manager.py), as wired together by main.py.                *)
(*                                                                         *)
(* Text representation.  A Python str is modelled as a sequence of         *)
(* characters.  An ASCII character is the one-character string itself; a   *)
(* non-ASCII character is the string "uXXXX" of its code point (for        *)
(* example "u5185" is U+5185).  Chars() turns an ASCII literal into such a *)
(* sequence; len, slicing, `in`, lower() and strip() are computed on the   *)
(* sequences.                                                              *)
(***************************************************************************)
EXTENDS Integers, Sequences, FiniteSets, TLC

\* ---------------------------------------------------------------------
\* str primitives
\* ---------------------------------------------------------------------

\* the characters of an ASCII literal
Chars(s) == [i \in 1..Len(s) |-> SubSeq(s, i, i)]

\* Python `needle in hay` on str
Contains(hay, needle) ==
    \E i \in 0..(Len(hay) - Len(needle)) :
        SubSeq(hay, i + 1, i + Len(needle)) = needle

\* some element of the list `words` occurs in `hay`
\* (for w in words: if w in hay: return ...)
AnyIn(words, hay) == \E k \in 1..Len(words) : Contains(hay, words[k])

UpperAlphabet == "ABCDEFGHIJKLMNOPQRSTUVWXYZ"
LowerAlphabet == "abcdefghijklmnopqrstuvwxyz"

\* the lower-case letter of every upper-case ASCII letter
LowerMap ==
    [c \in {SubSeq(UpperAlphabet, i, i) : i \in 1..26} |->
        LET i == CHOOSE j \in 1..26 : SubSeq(UpperAlphabet, j, j) = c
        IN  SubSeq(LowerAlphabet, i, i)]

\* str.lower() on one character: A-Z are folded, everything else is kept
LowerChar(c) == IF c \in DOMAIN LowerMap THEN LowerMap[c] ELSE c

\* str.lower()
Lower(s) == [i \in 1..Len(s) |-> LowerChar(s[i])]

Whitespace == {" ", "\t", "\n"}

\* str.strip()
RECURSIVE LStrip(_)
LStrip(s) == IF s # <<>> /\ Head(s) \in Whitespace THEN LStrip(Tail(s)) ELSE s

RECURSIVE RStrip(_)
RStrip(s) ==
    IF s # <<>> /\ s[Len(s)] \in Whitespace
    THEN RStrip(SubSeq(s, 1, Len(s) - 1))
    ELSE s

Strip(s) == RStrip(LStrip(s))

\* ---------------------------------------------------------------------
\* The quality gate: LLMAction._filter_content and its helpers
\* ---------------------------------------------------------------------

\* 内容包含敏感信息，已自动过滤
SentinelSensitive ==
    <<"u5185", "u5bb9", "u5305", "u542b", "u654f", "u611f", "u4fe1", "u606f",
      "uff0c", "u5df2", "u81ea", "u52a8", "u8fc7", "u6ee4">>
\* 内容质量不符合要求，已自动过滤
SentinelLowQuality ==
    <<"u5185", "u5bb9", "u8d28", "u91cf", "u4e0d", "u7b26", "u5408", "u8981",
      "u6c42", "uff0c", "u5df2", "u81ea", "u52a8", "u8fc7", "u6ee4">>
\* 内容过短，已自动过滤
SentinelTooShort ==
    <<"u5185", "u5bb9", "u8fc7", "u77ed", "uff0c", "u5df2", "u81ea", "u52a8",
      "u8fc7", "u6ee4">>

\* sensitive_categories, flattened in iteration order of the dict
SensitiveWords ==
    << \* 政治敏感: 政治 政府 领导人 国家 政策 体制 民主
       <<"u653f", "u6cbb">>, <<"u653f", "u5e9c">>, <<"u9886", "u5bfc", "u4eba">>,
       <<"u56fd", "u5bb6">>, <<"u653f", "u7b56">>, <<"u4f53", "u5236">>,
       <<"u6c11", "u4e3b">>,
       \* 暴力违法: 暴力 违法 犯罪 毒品 赌博 诈骗 杀人
       <<"u66b4", "u529b">>, <<"u8fdd", "u6cd5">>, <<"u72af", "u7f6a">>,
       <<"u6bd2", "u54c1">>, <<"u8d4c", "u535a">>, <<"u8bc8", "u9a97">>,
       <<"u6740", "u4eba">>,
       \* 色情低俗: 色情 淫秽 低俗 性爱 淫乱 猥亵
       <<"u8272", "u60c5">>, <<"u6deb", "u79fd">>, <<"u4f4e", "u4fd7">>,
       <<"u6027", "u7231">>, <<"u6deb", "u4e71">>, <<"u7325", "u4eb5">> >>

\* meaningless_patterns:
\* 啊啊啊啊 哈哈哈 。。。 ？？？ ！！！ test 测试 hello 你好 123 abc
MeaninglessPatterns ==
    << <<"u554a", "u554a", "u554a", "u554a">>, <<"u54c8", "u54c8", "u54c8">>,
       <<"u3002", "u3002", "u3002">>, <<"uff1f", "uff1f", "uff1f">>,
       <<"uff01", "uff01", "uff01">>, Chars("test"), <<"u6d4b", "u8bd5">>,
       Chars("hello"), <<"u4f60", "u597d">>, Chars("123"), Chars("abc") >>

\* the punctuation set of _is_low_quality: ，。！？；：、
PunctuationChars == {"uff0c", "u3002", "uff01", "uff1f", "uff1b", "uff1a", "u3001"}

RepeatThreshold == 5
MinLength == 10

\* current_repeat of _has_repeated_chars once its loop has handled the
\* i-th character (1-based): it was set to 1 at the last character that
\* differs from its predecessor (or before the loop) and has grown by one
\* at every character since
CurrentRepeat(content, i) ==
    CHOOSE n \in 1..i :
        /\ n = i \/ content[i - n + 1] # content[i - n]
        /\ \A m \in 1..(n - 1) : content[i - m + 1] = content[i - m]

\* max_repeat when the loop of _has_repeated_chars ends: the largest value
\* current_repeat has had
MaxRepeat(content) ==
    LET seen == {CurrentRepeat(content, i) : i \in 1..Len(content)}
    IN  CHOOSE n \in seen : \A m \in seen : m <= n

\* _has_repeated_chars returning max_repeat > threshold
HasRepeatedCharsStrict(content, threshold) ==
    IF content = <<>> THEN FALSE
    ELSE MaxRepeat(content) > threshold

HasRepeatedChars(content, threshold) ==
    IF content = <<>> THEN FALSE
    ELSE MaxRepeat(content) >= threshold

PunctuationCount(content) ==
    Cardinality({i \in 1..Len(content) : content[i] \in PunctuationChars})

\* _is_low_quality with `>= 0.5` for the punctuation ratio
IsLowQualityAtHalf(content) ==
    \/ HasRepeatedChars(content, RepeatThreshold)
    \/ AnyIn(MeaninglessPatterns, content)
    \/ (Len(content) > 0 /\ 2 * PunctuationCount(content) >= Len(content))

\* punctuation_count / len(content) > 0.5, on exact rationals
IsLowQuality(content) ==
    \/ HasRepeatedChars(content, RepeatThreshold)
    \/ AnyIn(MeaninglessPatterns, content)
    \/ (Len(content) > 0 /\ 2 * PunctuationCount(content) > Len(content))

\* _filter_content with the quality check ahead of the sensitive words
FilterContentQualityFirst(content) ==
    IF IsLowQuality(content) THEN SentinelLowQuality
    ELSE IF AnyIn(SensitiveWords, content) THEN SentinelSensitive
    ELSE IF Len(Strip(content)) < MinLength THEN SentinelTooShort
    ELSE content

\* _filter_content with the length check ahead of the quality check
FilterContentShortFirst(content) ==
    IF AnyIn(SensitiveWords, content) THEN SentinelSensitive
    ELSE IF Len(Strip(content)) < MinLength THEN SentinelTooShort
    ELSE IF IsLowQuality(content) THEN SentinelLowQuality
    ELSE content

\* _filter_content measuring len(content) without strip()
FilterContentUntrimmed(content) ==
    IF AnyIn(SensitiveWords, content) THEN SentinelSensitive
    ELSE IF IsLowQuality(content) THEN SentinelLowQuality
    ELSE IF Len(content) < MinLength THEN SentinelTooShort
    ELSE content

FilterContent(content) ==
    IF AnyIn(SensitiveWords, content) THEN SentinelSensitive
    ELSE IF IsLowQuality(content) THEN SentinelLowQuality
    ELSE IF Len(Strip(content)) < MinLength THEN SentinelTooShort
    ELSE content

\* generate_diary cutting with diary[:max_length] + "..."
GenerateDiaryCutShort(completion, max_length) ==
    LET diary == FilterContent(completion)
    IN  IF Len(diary) > max_length
        THEN SubSeq(diary, 1, max_length) \o Chars("...")
        ELSE diary

\* the tail of LLMAction.generate_diary: filter, then cut to max_length
GenerateDiary(completion, max_length) ==
    LET diary == FilterContent(completion)
    IN  IF Len(diary) > max_length
        THEN SubSeq(diary, 1, max_length - 3) \o Chars("...")
        ELSE diary

\* ---------------------------------------------------------------------
\* The failure classifier: AutoPublish._should_retry, _is_retryable_error
\* ---------------------------------------------------------------------

\* retryable_errors of _should_retry: timeout network connection 服务器 网络
retryable_errors ==
    << Chars("timeout"), Chars("network"), Chars("connection"),
       <<"u670d", "u52a1", "u5668">>, <<"u7f51", "u7edc">> >>

\* non_retryable_errors of _should_retry: permission auth content 敏感 违规
non_retryable_errors ==
    << Chars("permission"), Chars("auth"), Chars("content"),
       <<"u654f", "u611f">>, <<"u8fdd", "u89c4">> >>

\* _should_retry with the two keyword loops in the opposite order
ShouldRetryDenyFirst(error_data) ==
    LET error_str == Lower(error_data)
    IN  IF AnyIn(non_retryable_errors, error_str) THEN FALSE
        ELSE TRUE

\* error_data is the payload of a failed publish; the payloads of the
\* model are str values, on which str() is the identity
ShouldRetry(error_data) ==
    LET error_str == Lower(error_data)
    IN  IF AnyIn(retryable_errors, error_str) THEN TRUE
        ELSE IF AnyIn(non_retryable_errors, error_str) THEN FALSE
        ELSE TRUE

\* retryable_exceptions of _is_retryable_error (matched inside the
\* exception's class name, case-sensitively)
retryable_exceptions ==
    << Chars("TimeoutError"), Chars("ConnectionError"), Chars("NetworkError"),
       Chars("asyncio.TimeoutError"), Chars("aiohttp.ClientError") >>

\* retryable_keywords: timeout connection network 服务器 网络
retryable_keywords ==
    << Chars("timeout"), Chars("connection"), Chars("network"),
       <<"u670d", "u52a1", "u5668">>, <<"u7f51", "u7edc">> >>

\* non_retryable_keywords: content sensitive permission auth
non_retryable_keywords ==
    << Chars("content"), Chars("sensitive"), Chars("permission"), Chars("auth") >>

\* an exception is [name |-> type(e).__name__, msg |-> str(e)]
IsRetryableError(exception) ==
    LET exception_name == exception.name
        exception_str  == Lower(exception.msg)
    IN  IF AnyIn(retryable_exceptions, exception_name) THEN TRUE
        ELSE IF AnyIn(retryable_keywords, exception_str) THEN TRUE
        ELSE IF AnyIn(non_retryable_keywords, exception_str) THEN FALSE
        ELSE TRUE

\* ---------------------------------------------------------------------
\* Inputs of the scheduled pipeline
\* ---------------------------------------------------------------------

\* completions the LLM provider may return (llm_response.completion_text)
\* 今天天气很好，我们一起去公园散步吧
CleanCompletion ==
    <<"u4eca", "u5929", "u5929", "u6c14", "u5f88", "u597d", "uff0c", "u6211",
      "u4eec", "u4e00", "u8d77", "u53bb", "u516c", "u56ed", "u6563", "u6b65",
      "u5427">>
\* 昨天的政策讨论很有意思值得大家思考
SensitiveCompletion ==
    <<"u6628", "u5929", "u7684", "u653f", "u7b56", "u8ba8", "u8bba", "u5f88",
      "u6709", "u610f", "u601d", "u503c", "u5f97", "u5927", "u5bb6", "u601d",
      "u8003">>
\* 哈哈哈今天真的太开心了呀
LowQualityCompletion ==
    <<"u54c8", "u54c8", "u54c8", "u4eca", "u5929", "u771f", "u7684", "u592a",
      "u5f00", "u5fc3", "u4e86", "u5440">>
\* 晚安
ShortCompletion == <<"u665a", "u5b89">>

Completions ==
    {CleanCompletion, SensitiveCompletion, LowQualityCompletion, ShortCompletion}

\* failure payloads the publisher may return with succ = False
PayloadTimeout    == Chars("connection timeout")
PayloadPermission == Chars("permission denied: content policy")
PayloadAuth       == Chars("Authorization failed")
PayloadMixed      == Chars("auth server: Connection lost")
PayloadUnknown    == Chars("error -3000")
\* 服务器繁忙
PayloadServerBusy == <<"u670d", "u52a1", "u5668", "u7e41", "u5fd9">>
\* 内容违规
PayloadViolation  == <<"u5185", "u5bb9", "u8fdd", "u89c4">>

Payloads ==
    {PayloadTimeout, PayloadPermission, PayloadAuth, PayloadMixed,
     PayloadUnknown, PayloadServerBusy, PayloadViolation}

\* exceptions the generator or the publisher may raise
\* ValueError("LLM 调用失败：connection reset")
FaultConnection ==
    [name |-> Chars("ValueError"),
     msg  |-> <<"L", "L", "M", " ", "u8c03", "u7528", "u5931", "u8d25", "uff1a">>
              \o Chars("connection reset")]
\* ValueError("LLM 调用失败：content blocked")
FaultContent ==
    [name |-> Chars("ValueError"),
     msg  |-> <<"L", "L", "M", " ", "u8c03", "u7528", "u5931", "u8d25", "uff1a">>
              \o Chars("content blocked")]
\* asyncio.TimeoutError()
FaultTimeout == [name |-> Chars("TimeoutError"), msg |-> <<>>]

Faults == {FaultConnection, FaultContent, FaultTimeout}

\* asyncio.CancelledError(), thrown into a task by Task.cancel(); the class
\* derives from BaseException
FaultCancelled == [name |-> Chars("CancelledError"), msg |-> <<>>]

\* every class of Faults derives from Exception
ExceptionClasses == {Chars("ValueError"), Chars("TimeoutError")}

\* `except Exception` of a Python in which CancelledError derives from
\* Exception
CaughtWithCancelled(e) ==
    e.name \in ExceptionClasses \cup {Chars("CancelledError")}

\* a handler written as `except ValueError as e`
CaughtOnlyValueError(e) == e.name = Chars("ValueError")

\* `except Exception as e` catches e
CaughtByExceptException(e) == e.name \in ExceptionClasses

\* ---------------------------------------------------------------------
\* Bounds
\* ---------------------------------------------------------------------

\* scheduled runs started in one behaviour, over all schedulers
MaxRuns == 2
\* time units one awaited generator or publisher call takes
CallDuration == 1
\* record_usage calls, and on-demand commands received, in one behaviour
MaxUsage == 3
\* largest count of a user in the stores get_remaining_usage is applied to
MaxCount == 4
\* longest run of one character in the texts handed to the quality gate
MaxRun == 6

\* ---------------------------------------------------------------------
\* State
\* ---------------------------------------------------------------------

VARIABLES
    clientUp,       \* an AiocqhttpAdapter with a client is in platform_insts
    terminated,     \* QzonePlugin.terminate has returned
    tasks,          \* the initialize_qzone task of each entry point
    auto_publish,   \* QzonePlugin.auto_publish: <<>> (no attribute) or <<i>>
    ap,             \* the AutoPublish objects, by the entry point that built them
    today,          \* the day datetime.now() falls on (ordinal in the year)
    config,         \* the surfing_* keys of the plugin configuration
    usage_data,     \* SurfingManager.usage_data
    usage_file,     \* the file surfing_usage.json
    result,         \* what the latest SurfingManager call returned, <<>> if nothing
    calls,          \* record_usage(u) calls on the current date since u's last reset
    nrecords,       \* record_usage calls so far
    req,            \* the invocations of the on-demand command handlers
    started,        \* on-demand commands received so far
    pubs,           \* on-demand posts published, by user and day
    gate,           \* a text handed to generate_diary's filter, and what came back
    classified      \* a failure message handed to both classifiers, and their verdicts

\* the plugin and its scheduled pipeline
pvars == <<clientUp, terminated, tasks, auto_publish, ap>>
\* the usage quota manager
qvars == <<today, config, usage_data, usage_file, result, calls, nrecords>>

\* the on-demand command handlers, and the quality gate called on its own
hvars == <<req, started, pubs, gate, classified>>

vars == <<clientUp, terminated, tasks, auto_publish, ap,
          today, config, usage_data, usage_file, result, calls, nrecords,
          req, started, pubs, gate, classified>>

\* the two places of main.py that start initialize_qzone
EntryPoints == {"initialize", "on_platform_loaded"}

\* the AutoPublish object built by the task of an entry point
InstanceOf(entry) == IF entry = "initialize" THEN 1 ELSE 2

Instances == {InstanceOf(e) : e \in EntryPoints}

\* default of _retry_publish(max_retries)
max_retries == 3
\* max_instances of the job added by register_task
max_instances == 1
\* max_length passed by run_once and by _retry_publish
RunMaxLength == 500
RetryMaxLength == 300
\* cap of the backoff: min(2 ** attempt, 60)
BackoffCap == 60

\* AutoPublish.stats after __init__; last_run_time None is <<>>
InitStats ==
    [total_runs |-> 0, successful_runs |-> 0, failed_runs |-> 0,
     filtered_content |-> 0, total_execution_time |-> 0,
     last_run_time |-> <<>>, retry_attempts |-> 0]

\* One AutoPublish object with the activation of run_once it may be
\* executing.
\*   exists      the object was constructed
\*   job         its scheduler holds the qzone_auto_publish job
\*   pc          where run_once / _retry_publish is suspended
\*               ("idle": no activation)
\*   attempt, wait_time, text
\*               the locals of these names (dead after the return)
\*   elapsed     loop.time() - start_time, read until _update_stats
\*   stats       self.stats
\*   out         the logger calls of the activation's latest step
\*   pubCalls    calls of qzone.publish by the current activation
\*   published   the calls among them that returned success
\*   retryGens, retryPubs
\*               calls of llm.generate_diary and of qzone.publish by its
\*               _retry_publish
\*   retryVia    how the activation entered _retry_publish
\*   raised      the exception that left run_once, if any
\*   cancelled   the task of the activation was cancelled
InitAutoPublish ==
    [exists |-> FALSE, job |-> FALSE, pc |-> "idle", attempt |-> 0,
     wait_time |-> 0, text |-> <<>>, elapsed |-> 0, stats |-> InitStats,
     out |-> <<>>, pubCalls |-> 0, published |-> 0, retryGens |-> 0,
     retryPubs |-> 0, retryVia |-> "none", raised |-> <<>>,
     cancelled |-> FALSE]

\* AutoPublish.__init__: a new scheduler is started and register_task adds
\* the job to it (publish_cron is a valid crontab expression)
NewAutoPublish == [InitAutoPublish EXCEPT !.exists = TRUE, !.job = TRUE]

\* ---------------------------------------------------------------------
\* SurfingManager (core/surfing_manager.py)
\* ---------------------------------------------------------------------

\* sender ids (event.get_sender_id())
Users == {"10001", "10002"}

\* the calendar of 2025: days in each month
MonthLengths == <<31, 28, 31, 30, 31, 30, 31, 31, 30, 31, 30, 31>>
Year == 2025

\* the days datetime.now() takes in the model, as ordinals in the year:
\* 01-31, 02-01, 03-02, 04-01
Days == {31, 32, 61, 91}

\* month and day of month of the n-th day of the year
RECURSIVE MonthDay(_, _)
MonthDay(n, month) ==
    IF n <= MonthLengths[month] THEN <<month, n>>
    ELSE MonthDay(n - MonthLengths[month], month + 1)

\* datetime.day
DayOfMonth(n) == MonthDay(n, 1)[2]

Digit(k) == SubSeq("0123456789", k + 1, k + 1)

\* str(n) for n >= 0
RECURSIVE IntStr(_)
IntStr(n) == IF n < 10 THEN <<Digit(n)>> ELSE IntStr(n \div 10) \o <<Digit(n % 10)>>

\* zero padding to width w (%Y, %m, %d)
RECURSIVE Pad(_, _)
Pad(str, w) == IF Len(str) >= w THEN str ELSE Pad(<<"0">> \o str, w)

\* strftime("%Y-%m-%d") of the n-th day of the year
DateStr(n) ==
    Pad(IntStr(Year), 4) \o <<"-">> \o Pad(IntStr(MonthDay(n, 1)[1]), 2)
        \o <<"-">> \o Pad(IntStr(MonthDay(n, 1)[2]), 2)

\* code point order of the characters of a date string
CharOrder == "-0123456789"
CharOrd(c) == CHOOSE i \in 1..Len(CharOrder) : SubSeq(CharOrder, i, i) = c

\* Python a < b on str
RECURSIVE StrLess(_, _)
StrLess(a, b) ==
    IF b = <<>> THEN FALSE
    ELSE IF a = <<>> THEN TRUE
    ELSE IF Head(a) = Head(b) THEN StrLess(Tail(a), Tail(b))
    ELSE CharOrd(Head(a)) < CharOrd(Head(b))

\* _get_today_date
TodayDate == DateStr(today)

\* values of surfing_access_mode: 所有人, 主人模式, 白名单
ModeEveryone  == <<"u6240", "u6709", "u4eba">>
ModeOwner     == <<"u4e3b", "u4eba", "u6a21", "u5f0f">>
ModeWhitelist == <<"u767d", "u540d", "u5355">>

\* values of surfing_daily_limit in the model
Limits == {0, 2, 3}

Configs ==
    [surfing_access_mode : {ModeEveryone, ModeOwner, ModeWhitelist},
     surfing_master_qq   : {"10001"},
     surfing_whitelist   : {<<"10001">>},
     surfing_daily_limit : Limits]

\* the defaults of config.get in check_permission, with an owner set
DefaultConfig ==
    [surfing_access_mode |-> ModeEveryone, surfing_master_qq |-> "10001",
     surfing_whitelist |-> <<"10001">>, surfing_daily_limit |-> 3]

\* ❌ 此功能仅限主人使用
OwnerOnlyReason ==
    <<"u274c", " ", "u6b64", "u529f", "u80fd", "u4ec5", "u9650", "u4e3b",
      "u4eba", "u4f7f", "u7528">>
\* ❌ 您不在白名单中，无法使用此功能
WhitelistReason ==
    <<"u274c", " ", "u60a8", "u4e0d", "u5728", "u767d", "u540d", "u5355",
      "u4e2d", "uff0c", "u65e0", "u6cd5", "u4f7f", "u7528", "u6b64", "u529f",
      "u80fd">>
\* f"❌ 今日使用次数已达上限（{daily_limit}次），请明天再试"
QuotaReason(daily_limit) ==
    <<"u274c", " ", "u4eca", "u65e5", "u4f7f", "u7528", "u6b21", "u6570",
      "u5df2", "u8fbe", "u4e0a", "u9650", "uff08">>
    \o IntStr(daily_limit)
    \o <<"u6b21", "uff09", "uff0c", "u8bf7", "u660e", "u5929", "u518d", "u8bd5">>

\* x in list
InList(x, list) == \E k \in 1..Len(list) : list[k] = x
\* get_today_usage returning the largest count the user has on any date
GetTodayUsageAnyDate(data, user_id, date) ==
    IF user_id \in DOMAIN data /\ DOMAIN data[user_id] # {}
    THEN LET d == CHOOSE x \in DOMAIN data[user_id] :
                     \A y \in DOMAIN data[user_id] :
                         data[user_id][y] <= data[user_id][x]
         IN  data[user_id][d]
    ELSE 0

\* get_today_usage on the store `data`
GetTodayUsage(data, user_id, date) ==
    IF user_id \in DOMAIN data /\ date \in DOMAIN data[user_id]
    THEN data[user_id][date]
    ELSE 0

\* check_permission with the quota check ahead of the access mode
CheckPermissionQuotaFirst(data, cfg, user_id, date) ==
    IF /\ cfg.surfing_daily_limit > 0
       /\ GetTodayUsage(data, user_id, date) >= cfg.surfing_daily_limit
    THEN <<FALSE, QuotaReason(cfg.surfing_daily_limit)>>
    ELSE IF /\ cfg.surfing_access_mode = ModeOwner
            /\ user_id # cfg.surfing_master_qq
    THEN <<FALSE, OwnerOnlyReason>>
    ELSE IF /\ cfg.surfing_access_mode = ModeWhitelist
            /\ ~InList(user_id, cfg.surfing_whitelist)
    THEN <<FALSE, WhitelistReason>>
    ELSE <<TRUE, <<>> >>

\* check_permission comparing with `>` in place of `>=`
CheckPermissionStrict(data, cfg, user_id, date) ==
    IF /\ cfg.surfing_access_mode = ModeOwner
       /\ user_id # cfg.surfing_master_qq
    THEN <<FALSE, OwnerOnlyReason>>
    ELSE IF /\ cfg.surfing_access_mode = ModeWhitelist
            /\ ~InList(user_id, cfg.surfing_whitelist)
    THEN <<FALSE, WhitelistReason>>
    ELSE IF /\ cfg.surfing_daily_limit > 0
            /\ GetTodayUsage(data, user_id, date) > cfg.surfing_daily_limit
    THEN <<FALSE, QuotaReason(cfg.surfing_daily_limit)>>
    ELSE <<TRUE, <<>> >>

\* check_permission: <<allowed, reason>>
CheckPermission(data, cfg, user_id, date) ==
    IF /\ cfg.surfing_access_mode = ModeOwner
       /\ user_id # cfg.surfing_master_qq
    THEN <<FALSE, OwnerOnlyReason>>
    ELSE IF /\ cfg.surfing_access_mode = ModeWhitelist
            /\ ~InList(user_id, cfg.surfing_whitelist)
    THEN <<FALSE, WhitelistReason>>
    ELSE IF /\ cfg.surfing_daily_limit > 0
            /\ GetTodayUsage(data, user_id, date) >= cfg.surfing_daily_limit
    THEN <<FALSE, QuotaReason(cfg.surfing_daily_limit)>>
    ELSE <<TRUE, <<>> >>

Max(a, b) == IF a >= b THEN a ELSE b

\* get_remaining_usage without the clamp at 0
GetRemainingUsageUnclamped(data, cfg, user_id, date) ==
    IF cfg.surfing_daily_limit <= 0 THEN -1
    ELSE cfg.surfing_daily_limit - GetTodayUsage(data, user_id, date)

\* get_remaining_usage: -1 stands for "no limit"
GetRemainingUsage(data, cfg, user_id, date) ==
    IF cfg.surfing_daily_limit <= 0 THEN -1
    ELSE Max(0, cfg.surfing_daily_limit - GetTodayUsage(data, user_id, date))

\* outcomes of the write in _save_usage_data: the dump succeeds; open()
\* raises and the file is left as it was; json.dump raises after open()
\* truncated the file.  The exception is caught and logged.
SaveOutcomes == {"saved", "open_failed", "dump_failed"}

\* the file after _save_usage_data of the store `data`
Saved(file, data, outcome) ==
    IF outcome = "saved" THEN [state |-> "written", data |-> data]
    ELSE IF outcome = "open_failed" THEN file
    ELSE [state |-> "partial", data |-> <<>>]

\* a sweep that deletes `date <= cutoff_date`
PruneUserInclusive(user_data, cutoff) ==
    [d \in {x \in DOMAIN user_data : StrLess(cutoff, x)} |-> user_data[d]]

\* the store with the dates before `cutoff` deleted from one user's dict
PruneUser(user_data, cutoff) ==
    [d \in {x \in DOMAIN user_data : ~StrLess(x, cutoff)} |-> user_data[d]]

\* the in-memory effect of _cleanup_old_data
Cleaned(data, cutoff) ==
    [u \in {x \in DOMAIN data : PruneUser(data[x], cutoff) # <<>>} |->
        PruneUser(data[u], cutoff)]

\* (datetime.now() - timedelta(days=30)).strftime("%Y-%m-%d")
CutoffDate == DateStr(today - 30)

\* record_usage that writes 1 over the count of the date
IncrementedOverwrite(data, user_id, date) ==
    LET user_data == IF user_id \in DOMAIN data THEN data[user_id] ELSE <<>>
    IN  [u \in DOMAIN data \cup {user_id} |->
            IF u = user_id
            THEN [d \in DOMAIN user_data \cup {date} |->
                     IF d = date THEN 1 ELSE user_data[d]]
            ELSE data[u]]

\* record_usage that sets a count only where there is none yet
IncrementedOnce(data, user_id, date) ==
    LET user_data == IF user_id \in DOMAIN data THEN data[user_id] ELSE <<>>
    IN  [u \in DOMAIN data \cup {user_id} |->
            IF u = user_id
            THEN [d \in DOMAIN user_data \cup {date} |->
                     IF d \in DOMAIN user_data THEN user_data[d] ELSE 1]
            ELSE data[u]]

\* the in-memory effect of record_usage up to the save
Incremented(data, user_id, date) ==
    LET user_data == IF user_id \in DOMAIN data THEN data[user_id] ELSE <<>>
        count == IF date \in DOMAIN user_data THEN user_data[date] ELSE 0
    IN  [u \in DOMAIN data \cup {user_id} |->
            IF u = user_id
            THEN [d \in DOMAIN user_data \cup {date} |->
                     IF d = date THEN count + 1 ELSE user_data[d]]
            ELSE data[u]]

\* a sweep on the first two days of a month
SweepDueTwoDays(day) == DayOfMonth(day) <= 2

\* datetime.now().day == 1
SweepDue(day) == DayOfMonth(day) = 1

\* record_usage: increment, save, and on the first of a month the sweep
\* with its own save
RecordUsageCall(user_id) ==
    /\ nrecords < MaxUsage
    /\ \E o1 \in SaveOutcomes, o2 \in SaveOutcomes :
         LET data1 == Incremented(usage_data, user_id, TodayDate)
             file1 == Saved(usage_file, data1, o1)
         IN  IF SweepDue(today)
             THEN /\ usage_data' = Cleaned(data1, CutoffDate)
                  /\ usage_file' = Saved(file1, Cleaned(data1, CutoffDate), o2)
             ELSE /\ o2 = "saved"
                  /\ usage_data' = data1
                  /\ usage_file' = file1
    /\ calls' = [calls EXCEPT ![user_id] = @ + 1]
    /\ nrecords' = nrecords + 1
    /\ result' = <<>>
    /\ UNCHANGED <<today, config>>

\* record_usage called on its own
RecordUsage(user_id) ==
    /\ RecordUsageCall(user_id)
    /\ UNCHANGED <<pvars, hvars>>

\* check_permission(user_id, self.config)
CheckPermissionCall(user_id) ==
    /\ result' = <<"check_permission", user_id,
                   CheckPermission(usage_data, config, user_id, TodayDate)>>
    /\ result' # result
    /\ UNCHANGED <<today, config, usage_data, usage_file, calls, nrecords>>
    /\ UNCHANGED <<pvars, hvars>>

\* get_remaining_usage(user_id, self.config)
GetRemainingUsageCall(user_id) ==
    /\ result' = <<"get_remaining_usage", user_id,
                   GetRemainingUsage(usage_data, config, user_id, TodayDate)>>
    /\ result' # result
    /\ UNCHANGED <<today, config, usage_data, usage_file, calls, nrecords>>
    /\ UNCHANGED <<pvars, hvars>>

\* _cleanup_old_data called on its own; the outcome of its write is kept
CleanupOldDataCall ==
    /\ \E o \in SaveOutcomes :
          /\ usage_data' = Cleaned(usage_data, CutoffDate)
          /\ usage_file' = Saved(usage_file, usage_data', o)
          /\ result' = <<"_cleanup_old_data", o>>
    /\ result = <<>>
    /\ UNCHANGED <<today, config, calls, nrecords>>
    /\ UNCHANGED <<pvars, hvars>>
\* a reset that deletes the user's record of today only
ResetUserUsageTodayOnly(user_id) ==
    /\ \E o \in SaveOutcomes :
         IF user_id \in DOMAIN usage_data
         THEN /\ usage_data' =
                    [usage_data EXCEPT ![user_id] =
                        [d \in DOMAIN @ \ {TodayDate} |-> @[d]]]
              /\ usage_file' = Saved(usage_file, usage_data', o)
         ELSE /\ o = "saved"
              /\ UNCHANGED <<usage_data, usage_file>>
    /\ calls' = [calls EXCEPT ![user_id] = 0]
    /\ result' = <<>>
    /\ <<usage_data, calls, result>>' # <<usage_data, calls, result>>
    /\ UNCHANGED <<today, config, nrecords>>
    /\ UNCHANGED <<pvars, hvars>>

\* reset_user_usage
ResetUserUsage(user_id) ==
    /\ \E o \in SaveOutcomes :
         IF user_id \in DOMAIN usage_data
         THEN /\ usage_data' = [u \in DOMAIN usage_data \ {user_id} |-> usage_data[u]]
              /\ usage_file' = Saved(usage_file, usage_data', o)
         ELSE /\ o = "saved"
              /\ UNCHANGED <<usage_data, usage_file>>
    /\ calls' = [calls EXCEPT ![user_id] = 0]
    /\ result' = <<>>
    /\ <<usage_data, calls, result>>' # <<usage_data, calls, result>>
    /\ UNCHANGED <<today, config, nrecords>>
    /\ UNCHANGED <<pvars, hvars>>

\* datetime.now() reaches a later day
AdvanceDay ==
    /\ \E d \in Days : d > today /\ today' = d
    /\ calls' = [u \in Users |-> 0]
    /\ result' = <<>>
    /\ UNCHANGED <<config, usage_data, usage_file, nrecords>>
    /\ UNCHANGED <<pvars, hvars>>

\* SurfingManager.__init__ with no surfing_usage.json in data_dir
ManagerConstructed ==
    /\ today = 31
    /\ usage_data = <<>>
    /\ usage_file = [state |-> "absent", data |-> <<>>]
    /\ result = <<>>
    /\ calls = [u \in Users |-> 0]
    /\ nrecords = 0

\* the invocations of surfing_diary / surfing_diary_with_images that can be
\* in progress at the same time
Handlers == {1, 2}

\* no invocation: nothing awaited, nothing sent to the user.
\* pc is the await the handler is suspended at, content is result["content"],
\* faulted tells that the search or the LLM call raised, genCalls counts the
\* calls of llm.generate_surfing_diary*, posted that qzone.publish returned
\* succ = True, replies are the messages sent to the user
InitRequest ==
    [pc |-> "idle", cmd |-> "none", user |-> "none", content |-> "none",
     faulted |-> FALSE, genCalls |-> 0, posted |-> FALSE, replies |-> <<>>]

\* no command has been received
HandlersIdle ==
    /\ req = [h \in Handlers |-> InitRequest]
    /\ started = 0
    /\ pubs = [u \in Users |-> [d \in Days |-> 0]]

NoRequests ==
    /\ HandlersIdle
    /\ gate = <<>>
    /\ classified = <<>>

\* QzonePlugin.__init__ before initialize
PluginConstructed ==
    /\ tasks = [e \in EntryPoints |-> "none"]
    /\ auto_publish = <<>>
    /\ ap = [i \in Instances |-> InitAutoPublish]

\* the plugin object after QzonePlugin.__init__
Init ==
    /\ clientUp \in BOOLEAN
    /\ terminated = FALSE
    /\ PluginConstructed
    /\ ManagerConstructed
    /\ NoRequests
    /\ config = DefaultConfig

\* ---------------------------------------------------------------------
\* AutoPublish: statistics
\* ---------------------------------------------------------------------

\* A reading of time.time() is represented by the ordinal of the
\* activation that takes it: the activations of one scheduler are serial,
\* so the representation keeps the order of the readings.
TimeNow(r) == r.stats.total_runs
\* _update_stats storing the execution time of the run in place of adding it
UpdateStatsOverwrite(stats, execution_time, success, now) ==
    [stats EXCEPT !.total_execution_time = execution_time,
                  !.last_run_time = <<now>>,
                  !.retry_attempts = IF ~success THEN @ + 1 ELSE @]

\* _update_stats; execution_time is loop.time() - start_time
UpdateStats(stats, execution_time, success, now) ==
    [stats EXCEPT !.total_execution_time = @ + execution_time,
                  !.last_run_time = <<now>>,
                  !.retry_attempts = IF ~success THEN @ + 1 ELSE @]

\* ---------------------------------------------------------------------
\* AutoPublish.run_once
\* ---------------------------------------------------------------------

\* logger call; a line that prints the generated diary, a publish payload
\* or an exception carries it
Logged(r, tag) == [r EXCEPT !.out = Append(@, <<tag>>)]
LoggedData(r, tag, data) == [r EXCEPT !.out = Append(@, <<tag, data>>)]

\* the lines of the latest step of r
Lines(r) == {r.out[k] : k \in DOMAIN r.out}

\* run_once returns (or _retry_publish returns into the end of run_once)
FinishRun(r) ==
    [r EXCEPT !.pc = "idle", !.attempt = 0, !.wait_time = 0,
              !.text = <<>>, !.elapsed = 0]

\* the first lines of run_once, up to the await of the generator
BeginRun(r) ==
    [r EXCEPT !.pc = "gen", !.elapsed = 0, !.out = << <<"run">> >>,
              !.pubCalls = 0, !.published = 0, !.retryGens = 0,
              !.retryPubs = 0, !.retryVia = "none", !.raised = <<>>,
              !.cancelled = FALSE,
              !.stats = [@ EXCEPT !.total_runs = @ + 1]]

\* the filter test without its third disjunct
IsFilteredNoShort(text) ==
    \/ Contains(text, SubSeq(SentinelSensitive, 1, 8))
    \/ Contains(text, SubSeq(SentinelLowQuality, 1, 9))

\* the filter test of run_once on the generated text:
\* 内容包含敏感信息 / 内容质量不符合要求 / 内容过短
IsFiltered(text) ==
    \/ Contains(text, SubSeq(SentinelSensitive, 1, 8))
    \/ Contains(text, SubSeq(SentinelLowQuality, 1, 9))
    \/ Contains(text, SubSeq(SentinelTooShort, 1, 4))

Min(a, b) == IF a <= b THEN a ELSE b

\* a backoff that grows by one second per attempt
WaitTimeLinear(attempt) == Min(attempt + 1, BackoffCap)

\* wait_time = min(2 ** attempt, 60)
WaitTime(attempt) == Min(2 ^ attempt, BackoffCap)

\* one iteration of the for loop of _retry_publish up to its first await,
\* asyncio.sleep(wait_time)
StartAttempt(r, attempt) ==
    Logged([r EXCEPT !.pc = "retry_sleep", !.attempt = attempt,
                     !.wait_time = WaitTime(attempt)],
           "retry_try")

\* the call of _retry_publish: range(max_retries) yields attempt 0
EnterRetry(r, via) == StartAttempt([r EXCEPT !.retryVia = via], 0)
\* run_once counting a filtered run as a failed run as well
OnGeneratedFilteredFailed(r, text) ==
    IF IsFiltered(text)
    THEN FinishRun(Logged(
            [r EXCEPT !.stats = UpdateStats(
                          [@ EXCEPT !.filtered_content = @ + 1,
                                    !.failed_runs = @ + 1],
                          r.elapsed, FALSE, TimeNow(r))],
            "filtered"))
    ELSE [r EXCEPT !.text = text, !.pc = "pub", !.pubCalls = @ + 1]

\* run_once after generate_diary_with_analysis returned text
OnGenerated(r, text) ==
    IF IsFiltered(text)
    THEN FinishRun(Logged(
            [r EXCEPT !.stats = UpdateStats(
                          [@ EXCEPT !.filtered_content = @ + 1],
                          r.elapsed, FALSE, TimeNow(r))],
            "filtered"))
    ELSE [r EXCEPT !.text = text, !.pc = "pub", !.pubCalls = @ + 1]

\* run_once calling _retry_publish after every failed publish
OnPublishedAlwaysRetry(r, succ, data) ==
    IF ~succ
    THEN EnterRetry(LoggedData(
                 [r EXCEPT !.stats = UpdateStats(
                               [@ EXCEPT !.failed_runs = @ + 1],
                               r.elapsed, FALSE, TimeNow(r))],
                 "pub_failed", data), "payload")
    ELSE FinishRun(Logged(
            [r EXCEPT !.published = @ + 1,
                      !.stats = UpdateStats(
                          [@ EXCEPT !.successful_runs = @ + 1],
                          r.elapsed, TRUE, TimeNow(r))],
            "success"))

\* run_once after qzone.publish returned (succ, data)
OnPublished(r, succ, data) ==
    IF ~succ
    THEN LET r1 == LoggedData(
                 [r EXCEPT !.stats = UpdateStats(
                               [@ EXCEPT !.failed_runs = @ + 1],
                               r.elapsed, FALSE, TimeNow(r))],
                 "pub_failed", data)
         IN  IF ShouldRetry(data) THEN EnterRetry(r1, "payload")
             ELSE FinishRun(r1)
    ELSE FinishRun(Logged(
            [r EXCEPT !.published = @ + 1,
                      !.stats = UpdateStats(
                          [@ EXCEPT !.successful_runs = @ + 1],
                          r.elapsed, TRUE, TimeNow(r))],
            "success"))

\* the except branch of run_once calling _retry_publish for every exception
OnExceptionAlwaysRetry(r, e) ==
    IF CaughtByExceptException(e)
    THEN EnterRetry(LoggedData(
                 [r EXCEPT !.stats = UpdateStats(
                               [@ EXCEPT !.failed_runs = @ + 1],
                               r.elapsed, FALSE, TimeNow(r))],
                 "exception", e), "exception")
    ELSE FinishRun([r EXCEPT !.raised = <<e>>])

\* the `except Exception as e` branch of run_once; an exception the clause
\* does not catch leaves run_once
OnException(r, e) ==
    IF CaughtByExceptException(e)
    THEN LET r1 == LoggedData(
                 [r EXCEPT !.stats = UpdateStats(
                               [@ EXCEPT !.failed_runs = @ + 1],
                               r.elapsed, FALSE, TimeNow(r))],
                 "exception", e)
         IN  IF IsRetryableError(e) THEN EnterRetry(r1, "exception")
             ELSE FinishRun(Logged(r1, "nonretryable_skip"))
    ELSE FinishRun([r EXCEPT !.raised = <<e>>])

\* ---------------------------------------------------------------------
\* AutoPublish._retry_publish
\* ---------------------------------------------------------------------

\* the statement after the for loop, reached when range(max_retries) is
\* used up and also by `break`
LoopEnd(r) == FinishRun(Logged(r, "retry_exhausted"))

\* the loop running over range(max_retries + 1)
NextAttemptExtra(r) ==
    IF r.attempt + 1 <= max_retries
    THEN StartAttempt(r, r.attempt + 1)
    ELSE LoopEnd(r)

\* the end of one iteration of the for loop
NextAttempt(r) ==
    IF r.attempt + 1 < max_retries
    THEN StartAttempt(r, r.attempt + 1)
    ELSE LoopEnd(r)

\* the filter test of _retry_publish: "内容包含敏感信息" not in text
RetryAccepts(text) == ~Contains(text, SubSeq(SentinelSensitive, 1, 8))

\* asyncio.sleep(wait_time) returned; generate_diary is called
OnSleepDone(r) == [r EXCEPT !.pc = "retry_gen", !.retryGens = @ + 1]

\* _retry_publish after generate_diary returned text
OnRetryGenerated(r, text) ==
    IF RetryAccepts(text)
    THEN [r EXCEPT !.text = text, !.pc = "retry_pub",
                   !.pubCalls = @ + 1, !.retryPubs = @ + 1]
    ELSE NextAttempt(Logged(r, "retry_filtered"))
\* _retry_publish calling _update_stats after its successful publish
OnRetryPublishedWithStats(r, succ, data) ==
    IF succ
    THEN FinishRun(Logged(
            [r EXCEPT !.published = @ + 1,
                      !.stats = UpdateStats(@, r.elapsed, TRUE, TimeNow(r))],
            "retry_ok"))
    ELSE LET r1 == LoggedData(r, "retry_pub_failed", data)
         IN  IF ~ShouldRetry(data) THEN LoopEnd(Logged(r1, "retry_stop"))
             ELSE NextAttempt(r1)
\* _retry_publish counting its successful publish in successful_runs
OnRetryPublishedCountsSuccess(r, succ, data) ==
    IF succ
    THEN FinishRun(Logged(
            [r EXCEPT !.published = @ + 1,
                      !.stats = [@ EXCEPT !.successful_runs = @ + 1]],
            "retry_ok"))
    ELSE LET r1 == LoggedData(r, "retry_pub_failed", data)
         IN  IF ~ShouldRetry(data) THEN LoopEnd(Logged(r1, "retry_stop"))
             ELSE NextAttempt(r1)

\* _retry_publish without the `break` after a non-retryable payload
OnRetryPublishedNoBreak(r, succ, data) ==
    IF succ
    THEN FinishRun(Logged([r EXCEPT !.published = @ + 1], "retry_ok"))
    ELSE NextAttempt(LoggedData(r, "retry_pub_failed", data))

\* _retry_publish without the `return` after a successful publish
OnRetryPublishedNoReturn(r, succ, data) ==
    IF succ
    THEN NextAttempt(Logged([r EXCEPT !.published = @ + 1], "retry_ok"))
    ELSE LET r1 == LoggedData(r, "retry_pub_failed", data)
         IN  IF ~ShouldRetry(data) THEN LoopEnd(Logged(r1, "retry_stop"))
             ELSE NextAttempt(r1)

\* _retry_publish after qzone.publish returned (succ, data)
OnRetryPublished(r, succ, data) ==
    IF succ
    THEN FinishRun(Logged([r EXCEPT !.published = @ + 1], "retry_ok"))
    ELSE LET r1 == LoggedData(r, "retry_pub_failed", data)
         IN  IF ~ShouldRetry(data) THEN LoopEnd(Logged(r1, "retry_stop"))
             ELSE NextAttempt(r1)

\* the `except Exception as e` branch inside the for loop
OnRetryException(r, e) ==
    IF CaughtByExceptException(e)
    THEN LET r1 == LoggedData(r, "retry_exception", e)
         IN  IF ~IsRetryableError(e) THEN LoopEnd(Logged(r1, "retry_stop"))
             ELSE NextAttempt(r1)
    ELSE FinishRun([r EXCEPT !.raised = <<e>>])

\* ---------------------------------------------------------------------
\* QzonePlugin: initialisation (main.py)
\* ---------------------------------------------------------------------

\* QzonePlugin.initialize: asyncio.create_task(self.initialize_qzone(False))
Initialize ==
    /\ tasks["initialize"] = "none"
    /\ tasks' = [tasks EXCEPT !["initialize"] = "pending"]
    /\ UNCHANGED <<clientUp, terminated, auto_publish, ap>>
    /\ UNCHANGED <<qvars, hvars>>

\* QzonePlugin.on_platform_loaded:
\* asyncio.create_task(self.initialize_qzone(True))
OnPlatformLoaded ==
    /\ tasks["on_platform_loaded"] = "none"
    /\ tasks' = [tasks EXCEPT !["on_platform_loaded"] = "pending"]
    /\ UNCHANGED <<clientUp, terminated, auto_publish, ap>>
    /\ UNCHANGED <<qvars, hvars>>

\* the platform adapter obtains its client
PlatformUp ==
    /\ ~clientUp
    /\ clientUp' = TRUE
    /\ UNCHANGED <<terminated, tasks, auto_publish, ap>>
    /\ UNCHANGED <<qvars, hvars>>

\* initialize_qzone from `self.qzone = Qzone(client)` on, with the modules
\* enabled in the configuration
BuildModules(e) ==
    /\ ap' = [ap EXCEPT ![InstanceOf(e)] = NewAutoPublish]
    /\ auto_publish' = <<InstanceOf(e)>>

\* initialize_qzone(wait_ws_connected) up to its first suspension:
\* without a client it returns; with wait_ws_connected it awaits the
\* websocket connection (at most 10 s); otherwise it builds the modules
InitializeQzoneStart(e) ==
    /\ tasks[e] = "pending"
    /\ IF ~clientUp
       THEN /\ tasks' = [tasks EXCEPT ![e] = "done"]
            /\ UNCHANGED <<auto_publish, ap>>
       ELSE IF e = "on_platform_loaded"
       THEN /\ tasks' = [tasks EXCEPT ![e] = "waiting"]
            /\ UNCHANGED <<auto_publish, ap>>
       ELSE /\ tasks' = [tasks EXCEPT ![e] = "done"]
            /\ BuildModules(e)
    /\ UNCHANGED <<clientUp, terminated>>
    /\ UNCHANGED <<qvars, hvars>>

\* asyncio.wait_for(ws_connected.wait(), timeout=10) returned or timed out
InitializeQzoneResume(e) ==
    /\ tasks[e] = "waiting"
    /\ tasks' = [tasks EXCEPT ![e] = "done"]
    /\ BuildModules(e)
    /\ UNCHANGED <<clientUp, terminated>>
    /\ UNCHANGED <<qvars, hvars>>

\* ---------------------------------------------------------------------
\* The scheduler and the steps of run_once / _retry_publish
\* ---------------------------------------------------------------------

RunsStarted == ap[1].stats.total_runs + ap[2].stats.total_runs

\* activations of the job of scheduler i that have not returned
Running(i) == IF ap[i].pc # "idle" THEN 1 ELSE 0

\* the cron trigger of scheduler i fires: the scheduler starts run_once
\* unless max_instances activations are running (then the fire is skipped)
Trigger(i) ==
    /\ ap[i].job
    /\ Running(i) < max_instances
    /\ RunsStarted < MaxRuns
    /\ ap' = [ap EXCEPT ![i] = BeginRun(@)]
    /\ UNCHANGED <<clientUp, terminated, tasks, auto_publish>>
    /\ UNCHANGED <<qvars, hvars>>

\* the call awaited by activation i at `at` completes and the activation
\* runs on to its next suspension
Resume(i, at, next) ==
    /\ ap[i].pc = at
    /\ ap' = [ap EXCEPT ![i] = next]
    /\ UNCHANGED <<clientUp, terminated, tasks, auto_publish>>
    /\ UNCHANGED <<qvars, hvars>>

\* ap[i] when the activation is resumed: `out` collects the logger calls
\* of the step that starts
Awake(i) == [ap[i] EXCEPT !.out = <<>>]

\* the same after the awaited generator or publisher call took its time
Later(i) == [Awake(i) EXCEPT !.elapsed = @ + CallDuration]

\* what generate_diary can return for max_length
Diaries(max_length) == {GenerateDiary(c, max_length) : c \in Completions}

\* what the generator call of run_once and of _retry_publish can return
RunDiaries == Diaries(RunMaxLength)
RetryDiaries == Diaries(RetryMaxLength)

\* generate_diary logs the diary it returns
GenReturn(i) ==
    /\ ap[i].pc = "gen"
    /\ \E text \in RunDiaries :
          Resume(i, "gen",
                 OnGenerated(LoggedData(Later(i), "generated", text), text))

GenRaise(i) ==
    \E e \in Faults : Resume(i, "gen", OnException(Later(i), e))

PubSucceed(i) == Resume(i, "pub", OnPublished(Later(i), TRUE, <<>>))

PubFail(i) ==
    \E d \in Payloads : Resume(i, "pub", OnPublished(Later(i), FALSE, d))

PubRaise(i) ==
    \E e \in Faults : Resume(i, "pub", OnException(Later(i), e))

SleepReturn(i) == Resume(i, "retry_sleep", OnSleepDone(Awake(i)))

RetryGenReturn(i) ==
    /\ ap[i].pc = "retry_gen"
    /\ \E text \in RetryDiaries :
          Resume(i, "retry_gen",
                 OnRetryGenerated(LoggedData(Awake(i), "generated", text), text))

RetryGenRaise(i) ==
    \E e \in Faults : Resume(i, "retry_gen", OnRetryException(Awake(i), e))

RetryPubSucceed(i) ==
    Resume(i, "retry_pub", OnRetryPublished(Awake(i), TRUE, <<>>))

RetryPubFail(i) ==
    \E d \in Payloads :
        Resume(i, "retry_pub", OnRetryPublished(Awake(i), FALSE, d))

RetryPubRaise(i) ==
    \E e \in Faults : Resume(i, "retry_pub", OnRetryException(Awake(i), e))

\* one step of an activation of run_once
RunStep(i) ==
    \/ GenReturn(i)
    \/ GenRaise(i)
    \/ PubSucceed(i)
    \/ PubFail(i)
    \/ PubRaise(i)
    \/ SleepReturn(i)
    \/ RetryGenReturn(i)
    \/ RetryGenRaise(i)
    \/ RetryPubSucceed(i)
    \/ RetryPubFail(i)
    \/ RetryPubRaise(i)

Next ==
    \/ Initialize
    \/ OnPlatformLoaded
    \/ PlatformUp
    \/ \E e \in EntryPoints : InitializeQzoneStart(e)
    \/ \E e \in EntryPoints : InitializeQzoneResume(e)
    \/ \E i \in Instances : Trigger(i)
    \/ \E i \in Instances : RunStep(i)

Spec == Init /\ [][Next]_vars

\* every awaited call of a running activation eventually returns
FairSpec == Spec /\ \A i \in Instances : WF_vars(RunStep(i))

\* ---------------------------------------------------------------------
\* The plugin from its construction to the end of terminate
\* ---------------------------------------------------------------------

\* AutoPublish.terminate: the report is logged and remove_all_jobs() takes
\* the job off the scheduler of this object
AutoPublishTerminate(r) == [r EXCEPT !.job = FALSE]

\* QzonePlugin.terminate: if the plugin has the attribute auto_publish, the
\* object it refers to is terminated
Terminate ==
    /\ ~terminated
    /\ terminated' = TRUE
    /\ ap' = IF auto_publish = <<>> THEN ap
             ELSE [ap EXCEPT ![auto_publish[1]] = AutoPublishTerminate(@)]
    /\ UNCHANGED <<clientUp, tasks, auto_publish>>
    /\ UNCHANGED <<qvars, hvars>>

\* The entry points are called while the plugin is loaded; the tasks they
\* created, the schedulers and the runs whose generator and publisher
\* return without a failure go on after terminate.
NextTerminate ==
    \/ ~terminated /\ Initialize
    \/ ~terminated /\ OnPlatformLoaded
    \/ PlatformUp
    \/ \E e \in EntryPoints : InitializeQzoneStart(e)
    \/ \E e \in EntryPoints : InitializeQzoneResume(e)
    \/ \E i \in Instances : Trigger(i)
    \/ \E i \in Instances : GenReturn(i)
    \/ \E i \in Instances : PubSucceed(i)
    \/ Terminate

SpecTerminate == Init /\ [][NextTerminate]_vars

\* ---------------------------------------------------------------------
\* The scheduled pipeline of one AutoPublish object
\* ---------------------------------------------------------------------

\* the state after the task of initialize built the modules
InitRun ==
    /\ clientUp = TRUE
    /\ terminated = FALSE
    /\ tasks = [e \in EntryPoints |-> IF e = "initialize" THEN "done" ELSE "none"]
    /\ auto_publish = <<1>>
    /\ ap = [i \in Instances |-> IF i = 1 THEN NewAutoPublish ELSE InitAutoPublish]
    /\ ManagerConstructed
    /\ NoRequests
    /\ config = DefaultConfig

NextRun ==
    \/ Trigger(1)
    \/ RunStep(1)

SpecRun == InitRun /\ [][NextRun]_vars

FairSpecRun == SpecRun /\ WF_vars(RunStep(1))

\* ---------------------------------------------------------------------
\* The scheduled pipeline with its backoff sleep cancelled
\* ---------------------------------------------------------------------

\* the task of activation i is cancelled while it awaits
\* asyncio.sleep(wait_time): the await raises CancelledError inside the
\* try of the for loop
SleepCancelled(i) ==
    Resume(i, "retry_sleep",
           OnRetryException([Awake(i) EXCEPT !.cancelled = TRUE], FaultCancelled))

NextCancel ==
    \/ Trigger(1)
    \/ RunStep(1)
    \/ SleepCancelled(1)

SpecCancel == InitRun /\ [][NextCancel]_vars

\* ---------------------------------------------------------------------
\* The usage quota manager under every configuration
\* ---------------------------------------------------------------------

InitQuota ==
    /\ clientUp = TRUE
    /\ terminated = FALSE
    /\ PluginConstructed
    /\ ManagerConstructed
    /\ NoRequests
    /\ config \in Configs

NextQuota ==
    \/ \E u \in Users : CheckPermissionCall(u)
    \/ \E u \in Users : RecordUsage(u)
    \/ \E u \in Users : ResetUserUsage(u)
    \/ AdvanceDay

SpecQuota == InitQuota /\ [][NextQuota]_vars

\* ---------------------------------------------------------------------
\* get_remaining_usage on the stores record_usage can build in one day
\* ---------------------------------------------------------------------

\* the store after counts[u] calls of record_usage(u) today, for every u
StoreOf(counts, date) ==
    [u \in {x \in DOMAIN counts : counts[x] > 0} |->
        [d \in {date} |-> counts[u]]]

\* surfing_daily_limit may also be configured negative
RemainingConfigs ==
    [surfing_access_mode : {ModeEveryone, ModeOwner, ModeWhitelist},
     surfing_master_qq   : {"10001"},
     surfing_whitelist   : {<<"10001">>},
     surfing_daily_limit : Limits \cup {-1}]

\* the number of record_usage calls that built the store
RECURSIVE TotalCalls(_, _)
TotalCalls(counts, users) ==
    IF users = {} THEN 0
    ELSE LET u == CHOOSE x \in users : TRUE
         IN  counts[u] + TotalCalls(counts, users \ {u})

InitRemaining ==
    /\ clientUp = TRUE
    /\ terminated = FALSE
    /\ PluginConstructed
    /\ NoRequests
    /\ today = 31
    /\ config \in RemainingConfigs
    /\ \E counts \in [Users -> 0..MaxCount] :
          /\ usage_data = StoreOf(counts, TodayDate)
          /\ usage_file = [state |-> "written", data |-> usage_data]
          /\ calls = counts
          /\ nrecords = TotalCalls(counts, Users)
    /\ result = <<>>

NextRemaining == \E u \in Users : GetRemainingUsageCall(u)

SpecRemaining == InitRemaining /\ [][NextRemaining]_vars

\* ---------------------------------------------------------------------
\* The retention sweep on stores with records of several ages
\* ---------------------------------------------------------------------

\* the days datetime.now() falls on: 03-01, 03-02, 04-01, 04-10
SweepDays == {60, 61, 91, 100}

\* the ages in days of the records a user may have
Ages == {45, 31, 30, 1}

\* the store in which every user with ages has one record per age, with a
\* count that differs from age to age
AgedStore(ages, day) ==
    [u \in {x \in DOMAIN ages : ages[x] # {}} |->
        [d \in {DateStr(day - a) : a \in ages[u]} |->
            IF d = DateStr(day - 30) THEN 2 ELSE 1]]

\* which records the users have: any for the first user, for the second
\* none, an old one only, or one of yesterday
AgeChoices ==
    {f \in [Users -> SUBSET Ages] : f["10002"] \in {{}, {45}, {1}}}

\* the store was loaded from surfing_usage.json; nothing is recorded today
InitSweep ==
    /\ clientUp = TRUE
    /\ terminated = FALSE
    /\ PluginConstructed
    /\ NoRequests
    /\ config = DefaultConfig
    /\ today \in SweepDays
    /\ \E f \in AgeChoices : usage_data = AgedStore(f, today)
    /\ usage_file = [state |-> "written", data |-> usage_data]
    /\ result = <<>>
    /\ calls = [u \in Users |-> 0]
    /\ nrecords = 0

NextSweep ==
    \/ \E u \in Users : RecordUsage(u)
    \/ CleanupOldDataCall

SpecSweep == InitSweep /\ [][NextSweep]_vars

\* ---------------------------------------------------------------------
\* The on-demand commands: surfing_diary and surfing_diary_with_images
\* ---------------------------------------------------------------------

Commands == {"surfing_diary", "surfing_diary_with_images"}

\* the exception `raise StopIteration` of _publish turns into
FaultStopIteration ==
    [name |-> Chars("RuntimeError"), msg |-> Chars("coroutine raised StopIteration")]

\* a slot holds no invocation that is still running
SlotFree(h) == req[h].pc \in {"idle", "done"}

\* yield event.plain_result(...) / event.send(...)
Reply(r, msg) == [r EXCEPT !.replies = Append(@, msg)]

\* the handler returns
Finished(r) == [r EXCEPT !.pc = "done"]

\* `except Exception as e`: the failure text with str(e), then the end
HandlerFailed(r, e) == Finished(Reply(r, <<"handler_failed", e.msg>>))

\* the handler from its start to the await of the generation: permission,
\* remaining count, and the call of llm.generate_surfing_diary*
StartSurfing(h, cmd, user_id) ==
    /\ SlotFree(h)
    /\ \A g \in Handlers : g < h => ~SlotFree(g)
    /\ started < MaxUsage
    /\ started' = started + 1
    /\ LET r0        == [InitRequest EXCEPT !.cmd = cmd, !.user = user_id]
           permission == CheckPermission(usage_data, config, user_id, TodayDate)
           remaining  == GetRemainingUsage(usage_data, config, user_id, TodayDate)
       IN  req' = [req EXCEPT ![h] =
                IF ~permission[1]
                THEN Finished(Reply(r0, <<"denied", permission[2]>>))
                ELSE IF remaining = 0
                THEN Finished(Reply(r0, <<"limit_reached">>))
                ELSE [r0 EXCEPT !.pc = "gen", !.genCalls = 1]]
    /\ UNCHANGED <<pvars, qvars, pubs, gate, classified>>

\* where the handler goes once `result` has no "error": surfing_diary awaits
\* get_image_urls, surfing_diary_with_images goes on to _publish
AfterGeneration(r) ==
    [r EXCEPT !.pc = IF r.cmd = "surfing_diary" THEN "images" ELSE "pub"]

\* the search and the LLM call return: result["content"] is the diary
SurfGenerated(h) ==
    /\ req[h].pc = "gen"
    /\ req' = [req EXCEPT ![h] = AfterGeneration([@ EXCEPT !.content = "generated"])]
    /\ UNCHANGED <<pvars, qvars, started, pubs, gate, classified>>

\* search_with_tavily or text_chat raises: WebSurfingGenerator catches it
\* and returns its default content, a dict without "error"
SurfGenFault(h) ==
    /\ req[h].pc = "gen"
    /\ req' = [req EXCEPT ![h] =
                 AfterGeneration([@ EXCEPT !.content = "fallback", !.faulted = TRUE])]
    /\ UNCHANGED <<pvars, qvars, started, pubs, gate, classified>>

\* await get_image_urls(event) returns
ImagesFetched(h) ==
    /\ req[h].pc = "images"
    /\ req' = [req EXCEPT ![h].pc = "pub"]
    /\ UNCHANGED <<pvars, qvars, started, pubs, gate, classified>>

\* await get_image_urls(event) raises
ImagesRaise(h) ==
    /\ req[h].pc = "images"
    /\ req' = [req EXCEPT ![h] = HandlerFailed(@, FaultTimeout)]
    /\ UNCHANGED <<pvars, qvars, started, pubs, gate, classified>>

\* _publish: qzone.publish returns succ = True; the post is in the space
SurfPublished(h) ==
    /\ req[h].pc = "pub"
    /\ req' = [req EXCEPT ![h] = [@ EXCEPT !.pc = "save", !.posted = TRUE]]
    /\ pubs' = [pubs EXCEPT ![req[h].user][today] = @ + 1]
    /\ UNCHANGED <<pvars, qvars, started, gate, classified>>

\* _publish: qzone.publish returns succ = False; str(data) is sent and
\* `raise StopIteration` reaches the handler's except as a RuntimeError
SurfPublishFail(h) ==
    /\ req[h].pc = "pub"
    /\ req' = [req EXCEPT ![h] =
                 HandlerFailed(Reply(@, <<"publish_error", PayloadTimeout>>),
                               FaultStopIteration)]
    /\ UNCHANGED <<pvars, qvars, started, pubs, gate, classified>>

\* _publish: get_nickname or qzone.publish raises
SurfPublishRaise(h) ==
    /\ req[h].pc = "pub"
    /\ req' = [req EXCEPT ![h] = HandlerFailed(@, FaultTimeout)]
    /\ UNCHANGED <<pvars, qvars, started, pubs, gate, classified>>
\* a handler that also counts its invocation as a run in self.stats of the
\* AutoPublish object
SurfRecordedCountsRun(h) ==
    /\ req[h].pc = "save"
    /\ RecordUsageCall(req[h].user)
    /\ req' = [req EXCEPT ![h] =
                 Finished(Reply(@, <<"success",
                     GetRemainingUsage(usage_data', config, req[h].user, TodayDate)>>))]
    /\ ap' = [ap EXCEPT ![1].stats.total_runs = @ + 1]
    /\ UNCHANGED <<clientUp, terminated, tasks, auto_publish, started, pubs, gate, classified>>

\* post.save, post.to_image and event.send return; the handler records the
\* usage, reads the remaining count and sends the success message
SurfRecorded(h) ==
    /\ req[h].pc = "save"
    /\ RecordUsageCall(req[h].user)
    /\ req' = [req EXCEPT ![h] =
                 Finished(Reply(@, <<"success",
                     GetRemainingUsage(usage_data', config, req[h].user, TodayDate)>>))]
    /\ UNCHANGED <<pvars, started, pubs, gate, classified>>

\* post.save, post.to_image or event.send raises after the post went out
SurfRenderRaise(h) ==
    /\ req[h].pc = "save"
    /\ req' = [req EXCEPT ![h] = HandlerFailed(@, FaultTimeout)]
    /\ UNCHANGED <<pvars, qvars, started, pubs, gate, classified>>

\* the configurations the commands run under
SurfConfigs == {c \in Configs : c.surfing_daily_limit = 2}

InitSurf ==
    /\ clientUp = TRUE
    /\ terminated = FALSE
    /\ PluginConstructed
    /\ ManagerConstructed
    /\ NoRequests
    /\ config \in SurfConfigs

NextSurf ==
    \/ \E h \in Handlers, cmd \in Commands, u \in Users : StartSurfing(h, cmd, u)
    \/ \E h \in Handlers : SurfGenerated(h)
    \/ \E h \in Handlers : SurfGenFault(h)
    \/ \E h \in Handlers : ImagesFetched(h)
    \/ \E h \in Handlers : ImagesRaise(h)
    \/ \E h \in Handlers : SurfPublished(h)
    \/ \E h \in Handlers : SurfPublishFail(h)
    \/ \E h \in Handlers : SurfPublishRaise(h)
    \/ \E h \in Handlers : SurfRecorded(h)
    \/ \E h \in Handlers : SurfRenderRaise(h)

SpecSurf == InitSurf /\ [][NextSurf]_vars

\* ---------------------------------------------------------------------
\* The scheduled pipeline and the on-demand command side by side
\* ---------------------------------------------------------------------

\* The steps of the scheduled runs interleaved with the steps of one
\* user's surfing_diary_with_images command and with reset_user_usage.
NextBoth ==
    \/ Trigger(1)
    \/ RunStep(1)
    \/ StartSurfing(1, "surfing_diary_with_images", "10002")
    \/ SurfGenerated(1)
    \/ SurfPublished(1)
    \/ SurfPublishFail(1)
    \/ SurfRecorded(1)
    \/ ResetUserUsage("10002")

SpecBoth == InitRun /\ [][NextBoth]_vars

\* ---------------------------------------------------------------------
\* The quality gate on its own: generate_diary from the completion on
\* ---------------------------------------------------------------------

\* n copies of s
RECURSIVE Times(_, _)
Times(s, n) == IF n <= 0 THEN <<>> ELSE s \o Times(s, n - 1)

\* ，。！？；、：
PunctuationOnly == <<"uff0c", "u3002", "uff01", "uff1f", "uff1b", "u3001", "uff1a">>
\* 今，天。很！好？呀； (5 of 10 characters are punctuation)
HalfPunctuation ==
    <<"u4eca", "uff0c", "u5929", "u3002", "u5f88", "uff01", "u597d", "uff1f",
      "u5440", "uff1b">>
\* ，今。天！很？好；、呀 (6 of 11)
DensePunctuation ==
    <<"uff0c", "u4eca", "u3002", "u5929", "uff01", "u5f88", "uff1f", "u597d",
      "uff1b", "u3001", "u5440">>

\* what a completion may have before and after its middle part
Surroundings ==
    {<<>>, CleanCompletion, ShortCompletion, LowQualityCompletion,
     SensitiveCompletion, PunctuationOnly}

\* runs of 好 and of "a", 4 to MaxRun characters long
Runs == {Times(<<c>>, n) : c \in {"u597d", "a"}, n \in 4..MaxRun}

\* middle parts: nothing, each sensitive word, runs, punctuated phrases
Middles ==
    {<<>>, HalfPunctuation, DensePunctuation}
        \cup {SensitiveWords[k] : k \in 1..Len(SensitiveWords)}
        \cup Runs

\* clean completions longer than the max_length of _retry_publish and of
\* run_once, and one with a sensitive word at its end
LongCompletions ==
    {Times(CleanCompletion, 18), Times(CleanCompletion, 30),
     Times(CleanCompletion, 18) \o SensitiveWords[5]}

\* the first 9 and the first 10 characters of a clean completion, bare and
\* with white space around them
BoundaryTexts ==
    {pad \o SubSeq(CleanCompletion, 1, n) \o pad \o pad :
        pad \in {<<>>, <<" ">>}, n \in {MinLength - 1, MinLength}}

GateTexts ==
    {pre \o mid \o post : pre \in Surroundings, mid \in Middles,
                           post \in Surroundings}
        \cup LongCompletions \cup BoundaryTexts

\* the values of max_length the callers pass
MaxLengths == {RetryMaxLength, RunMaxLength}

\* llm_response.completion_text is `text`; nothing has been filtered yet
InitGate ==
    /\ clientUp = TRUE
    /\ terminated = FALSE
    /\ PluginConstructed
    /\ ManagerConstructed
    /\ HandlersIdle
    /\ config = DefaultConfig
    /\ classified = <<>>
    /\ \E text \in GateTexts, max_length \in MaxLengths :
          gate = [text |-> text, max_length |-> max_length, done |-> FALSE,
                  verdict |-> <<>>, diary |-> <<>>]

\* generate_diary from `diary = llm_response.completion_text` to its return:
\* verdict is `diary` after _filter_content, diary is what is returned
GenerateDiaryTail ==
    /\ ~gate.done
    /\ gate' = [gate EXCEPT !.done = TRUE,
                            !.verdict = FilterContent(gate.text),
                            !.diary = GenerateDiary(gate.text, gate.max_length)]
    /\ UNCHANGED <<pvars, qvars, req, started, pubs, classified>>

NextGate == GenerateDiaryTail

SpecGate == InitGate /\ [][NextGate]_vars

\* ---------------------------------------------------------------------
\* The two failure classifiers on the same message
\* ---------------------------------------------------------------------

\* every keyword of the four keyword lists, and no keyword
Keywords ==
    {retryable_errors[k] : k \in DOMAIN retryable_errors}
        \cup {non_retryable_errors[k] : k \in DOMAIN non_retryable_errors}
        \cup {retryable_keywords[k] : k \in DOMAIN retryable_keywords}
        \cup {non_retryable_keywords[k] : k \in DOMAIN non_retryable_keywords}
        \cup {<<>>, Chars("Sensitive"), Chars("AUTH")}

\* failure messages: one or two keywords in some other text
Messages ==
    {Chars("error ") \o k1 \o Chars(" -3000 ") \o k2 : k1 \in Keywords, k2 \in Keywords}

\* type(e).__name__ of the faults: two classes outside retryable_exceptions
\* and one inside
FaultNames == {Chars("ValueError"), Chars("RuntimeError"), Chars("TimeoutError")}

\* a failure with message msg is at hand, as payload of a failed publish
\* and as exception of class name
InitClassify ==
    /\ clientUp = TRUE
    /\ terminated = FALSE
    /\ PluginConstructed
    /\ ManagerConstructed
    /\ HandlersIdle
    /\ gate = <<>>
    /\ config = DefaultConfig
    /\ \E msg \in Messages, name \in FaultNames :
          classified = [msg |-> msg, name |-> name, done |-> FALSE,
                        payload |-> FALSE, fault |-> FALSE]

\* _should_retry(msg) and _is_retryable_error(name(msg))
Classify ==
    /\ ~classified.done
    /\ classified' =
          [classified EXCEPT
              !.done = TRUE,
              !.payload = ShouldRetry(classified.msg),
              !.fault = IsRetryableError([name |-> classified.name,
                                          msg |-> classified.msg])]
    /\ UNCHANGED <<pvars, qvars, req, started, pubs, gate>>

NextClassify == Classify

SpecClassify == InitClassify /\ [][NextClassify]_vars

\* =====================================================================
\* Properties
\* =====================================================================

\* r's latest step logged a line with this tag
HasLine(r, tag) == \E line \in Lines(r) : line[1] = tag

\* r's latest step logged a line with this tag about `data`
HasLineAbout(r, tag, data) ==
    \E line \in Lines(r) : line[1] = tag /\ line[2] = data

RetryPcs == {"retry_sleep", "retry_gen", "retry_pub"}

\* C1: one call of _retry_publish calls qzone.publish at most 3 times and
\* llm.generate_diary at most 3 times, and it returns, whatever the
\* generator and the publisher return or raise.
C1_RetryBounded ==
    /\ [](\A i \in Instances : ap[i].retryPubs <= 3 /\ ap[i].retryGens <= 3)
    /\ \A i \in Instances : (ap[i].pc \in RetryPcs) ~> (ap[i].pc = "idle")

\* a retry loop that used all three attempts, each with a publish
C1_Witness ==
    /\ ap[1].pc = "idle"
    /\ ap[1].retryGens = 3
    /\ ap[1].retryPubs = 3

\* the three sentinels _filter_content returns for a rejected text
RejectionSentinels == {SentinelSensitive, SentinelLowQuality, SentinelTooShort}

ContainsSentinel(text) == \E sentinel \in RejectionSentinels : Contains(text, sentinel)

\* C2: inside _retry_publish a text that is one of the rejection sentinels
\* of the quality gate is never handed to qzone.publish.
C2_RejectedNeverPublished ==
    \A i \in Instances :
        ap[i].pc = "retry_pub" => ap[i].text \notin RejectionSentinels

\* C3: inside _retry_publish the first failure that the classifier deems
\* non-retryable (a publish payload or a raised exception) ends the loop at
\* once, and when the initial publish failed with a retryable payload and
\* the publish of the first retry returns "permission denied: content
\* policy", the run made exactly 2 publish calls.
C3_NonRetryableAborts ==
    \A i \in Instances :
        /\ \A line \in Lines(ap[i]) :
              (\/ (line[1] = "retry_pub_failed" /\ ~ShouldRetry(line[2]))
               \/ (line[1] = "retry_exception" /\ ~IsRetryableError(line[2])))
              => ap[i].pc = "idle"
        /\ (/\ ap[i].retryVia = "payload"
            /\ ap[i].retryGens = 1
            /\ HasLineAbout(ap[i], "retry_pub_failed", PayloadPermission))
           => (ap[i].pc = "idle" /\ ap[i].pubCalls = 2)

\* scenario D has happened
C3_Witness ==
    /\ ap[1].pc = "idle"
    /\ ap[1].retryVia = "payload"
    /\ ap[1].retryGens = 1
    /\ ap[1].pubCalls = 2
    /\ HasLineAbout(ap[1], "retry_pub_failed", PayloadPermission)

\* C4: inside _retry_publish the first successful publish ends the
\* activation, and an activation publishes at most one post successfully.
C4_SuccessIsTerminal ==
    \A i \in Instances :
        /\ ap[i].published <= 1
        /\ HasLine(ap[i], "retry_ok") => ap[i].pc = "idle"

\* a retry that recovered on its second attempt
C4_Witness ==
    /\ ap[1].pc = "idle"
    /\ HasLine(ap[1], "retry_ok")
    /\ ap[1].published = 1
    /\ ap[1].retryGens = 2

\* C5: at any time at most one activation of run_once is in flight.
C5_SingleFlight ==
    Cardinality({i \in Instances : ap[i].pc # "idle"}) <= 1

\* C6: when the generator of run_once returns a text that contains a
\* rejection sentinel, the step adds exactly one to filtered_content,
\* leaves successful_runs and failed_runs as they were, makes no publish
\* call, does not enter _retry_publish, and ends the activation.
C6_FilteredRun ==
    [][\A i \in Instances :
          (/\ ap[i].pc = "gen"
           /\ \E line \in Lines(ap'[i]) :
                 line[1] = "generated" /\ ContainsSentinel(line[2]))
          => /\ ap'[i].stats.filtered_content = ap[i].stats.filtered_content + 1
             /\ ap'[i].stats.successful_runs = ap[i].stats.successful_runs
             /\ ap'[i].stats.failed_runs = ap[i].stats.failed_runs
             /\ ap'[i].pc = "idle"
             /\ ap'[i].pubCalls = 0
             /\ ap'[i].retryGens = 0
             /\ ap'[i].retryVia = "none"]_vars

\* scenario B has happened
C6_Witness ==
    /\ ap[1].pc = "idle"
    /\ HasLineAbout(ap[1], "generated", SentinelTooShort)
    /\ HasLine(ap[1], "filtered")
    /\ ap[1].stats.filtered_content = 1
    /\ ap[1].pubCalls = 0

\* C7: when the initial publish of a run returns failure, the step adds
\* exactly one to failed_runs, records the execution time, and enters
\* _retry_publish exactly if _should_retry accepts the payload:
\* "connection timeout" is retried, the permission and authorization
\* payloads end the run after its single publish call.
C7_PublishFailure ==
    [][\A i \in Instances : \A d \in Payloads :
          (ap[i].pc = "pub" /\ HasLineAbout(ap'[i], "pub_failed", d))
          => /\ ap'[i].stats.failed_runs = ap[i].stats.failed_runs + 1
             /\ ap'[i].stats.last_run_time # <<>>
             /\ ap'[i].stats.total_execution_time =
                    ap[i].stats.total_execution_time + ap[i].elapsed + CallDuration
             /\ (ap'[i].pc = "retry_sleep") <=> ShouldRetry(d)
             /\ ap'[i].pc \in {"retry_sleep", "idle"}
             /\ d = PayloadTimeout =>
                    (ap'[i].pc = "retry_sleep" /\ ap'[i].retryVia = "payload")
             /\ d \in {PayloadPermission, PayloadAuth} =>
                    (ap'[i].pc = "idle" /\ ap'[i].pubCalls = 1)]_vars

\* scenario C has happened
C7_Witness ==
    /\ ap[1].pc = "retry_sleep"
    /\ HasLineAbout(ap[1], "pub_failed", PayloadTimeout)
    /\ ap[1].stats.failed_runs = 1
    /\ ap[1].stats.last_run_time # <<>>

\* C8: no exception raised by the generator or the publisher leaves
\* run_once; a run that an exception ended without a retry is logged and
\* counted in failed_runs; every run that has ended is counted in exactly
\* one of successful_runs, failed_runs and filtered_content; and every
\* activation returns, so that the scheduler can start the next one.
C8_FaultsContained ==
    /\ [](\A i \in Instances :
             /\ ap[i].raised = <<>>
             /\ (ap[i].pc = "idle" /\ HasLine(ap[i], "exception"))
                => (HasLine(ap[i], "nonretryable_skip")
                    /\ ap[i].stats.failed_runs >= 1)
             /\ ap[i].pc = "idle"
                => ap[i].stats.total_runs =
                       ap[i].stats.successful_runs + ap[i].stats.failed_runs
                           + ap[i].stats.filtered_content)
    /\ \A i \in Instances : (ap[i].pc # "idle") ~> (ap[i].pc = "idle")

\* a run ended by a non-retryable exception of the generator
C8_Witness ==
    /\ ap[1].pc = "idle"
    /\ HasLineAbout(ap[1], "exception", FaultContent)
    /\ HasLine(ap[1], "nonretryable_skip")
    /\ ap[1].stats.failed_runs = 1
    /\ ap[1].raised = <<>>

\* the precedence the classifier of payloads is said to follow
PrecedenceRetryable(payload) ==
    LET s == Lower(payload)
    IN  IF \/ Contains(s, Chars("timeout"))
           \/ Contains(s, Chars("network"))
           \/ Contains(s, Chars("connection"))
           \/ Contains(s, <<"u670d", "u52a1", "u5668">>)
           \/ Contains(s, <<"u7f51", "u7edc">>)
        THEN TRUE
        ELSE IF \/ Contains(s, Chars("permission"))
                \/ Contains(s, Chars("auth"))
                \/ Contains(s, Chars("content"))
                \/ Contains(s, <<"u654f", "u611f">>)
                \/ Contains(s, <<"u8fdd", "u89c4">>)
        THEN FALSE
        ELSE TRUE

\* C9: the decision taken on a failure payload follows the precedence
\* retryable keyword, then non-retryable keyword, then retryable by
\* default, on the lower-cased payload: after the initial publish the run
\* enters _retry_publish, and inside _retry_publish the loop goes on,
\* exactly for the payloads that precedence calls retryable.
C9_ClassifierPrecedence ==
    \A i \in Instances : \A line \in Lines(ap[i]) :
        /\ line[1] = "pub_failed" =>
              ((ap[i].pc = "retry_sleep") <=> PrecedenceRetryable(line[2]))
        /\ line[1] = "retry_pub_failed" =>
              (~HasLine(ap[i], "retry_stop") <=> PrecedenceRetryable(line[2]))

\* a payload with a keyword of both classes was retried
C9_Witness ==
    /\ ap[1].pc = "retry_sleep"
    /\ HasLineAbout(ap[1], "pub_failed", PayloadMixed)

\* the access mode of the configuration admits user_id
Admitted(user_id) ==
    /\ config.surfing_access_mode = ModeOwner => user_id = config.surfing_master_qq
    /\ config.surfing_access_mode = ModeWhitelist =>
           InList(user_id, config.surfing_whitelist)

\* 已达上限
LimitReached == <<"u5df2", "u8fbe", "u4e0a", "u9650">>

\* C10: for a user the access mode admits and daily_limit > 0,
\* check_permission denies exactly if the user's count for today is at
\* least daily_limit: after daily_limit calls of record_usage on the date
\* (calls counts them since the user's last reset) it returns
\* (False, reason) with "已达上限" in the reason, before that (True, "");
\* with daily_limit = 0 it allows whatever the count.
C10_QuotaCheck ==
    (result # <<>> /\ result[1] = "check_permission" /\ Admitted(result[2]))
    => LET user_id == result[2]
           allowed == result[3][1]
           reason  == result[3][2]
           limit   == config.surfing_daily_limit
       IN  IF limit > 0
           THEN /\ ~allowed <=> GetTodayUsage(usage_data, user_id, TodayDate) >= limit
                /\ calls[user_id] >= limit =>
                       (~allowed /\ Contains(reason, LimitReached))
                /\ calls[user_id] < limit => (allowed /\ reason = <<>>)
           ELSE allowed /\ reason = <<>>

\* scenario A has happened
C10_Witness ==
    /\ config.surfing_daily_limit = 3
    /\ calls["10002"] = 3
    /\ result = <<"check_permission", "10002", <<FALSE, QuotaReason(3)>> >>

\* C13: get_remaining_usage never returns a negative value other than -1:
\* it returns -1 exactly when daily_limit <= 0, and otherwise
\* max(0, daily_limit - today's count), which is 0 when the count exceeds
\* the limit (calls[u] is the number of record_usage(u) calls today).
C13_RemainingNeverNegative ==
    (result # <<>> /\ result[1] = "get_remaining_usage")
    => LET user_id   == result[2]
           remaining == result[3]
           limit     == config.surfing_daily_limit
       IN  /\ remaining >= 0 \/ remaining = -1
           /\ remaining = -1 <=> limit <= 0
           /\ (limit > 0 /\ calls[user_id] <= limit) =>
                  remaining = limit - calls[user_id]
           /\ (limit > 0 /\ calls[user_id] > limit) => remaining = 0

\* the count of a user is above the limit and 0 is returned
C13_Witness ==
    /\ config.surfing_daily_limit = 3
    /\ calls["10002"] = 4
    /\ result = <<"get_remaining_usage", "10002", 0>>

\* C14: check_permission applies the access mode before the quota: in
\* owner-only mode every user but the owner, and in allow-list mode every
\* user outside the list, is denied with the reason of the access mode
\* whatever the count, also with the quota used up; a user the access mode
\* admits is denied with the quota reason once the count reaches the limit.
C14_AccessModeFirst ==
    (result # <<>> /\ result[1] = "check_permission")
    => LET user_id == result[2]
           verdict == result[3]
           limit   == config.surfing_daily_limit
       IN  /\ (config.surfing_access_mode = ModeOwner
                /\ user_id # config.surfing_master_qq)
               => verdict = <<FALSE, OwnerOnlyReason>>
           /\ (config.surfing_access_mode = ModeWhitelist
                /\ \A k \in 1..Len(config.surfing_whitelist) :
                       config.surfing_whitelist[k] # user_id)
               => verdict = <<FALSE, WhitelistReason>>
           /\ (Admitted(user_id) /\ limit > 0 /\ calls[user_id] >= limit)
               => verdict = <<FALSE, QuotaReason(limit)>>

\* a user who is not the owner, with the quota used up, is told that the
\* command is for the owner only
C14_Witness ==
    /\ config.surfing_access_mode = ModeOwner
    /\ config.surfing_daily_limit = 2
    /\ calls["10002"] >= 2
    /\ result = <<"check_permission", "10002", <<FALSE, OwnerOnlyReason>> >>

\* C15: after every mutation of the usage store (record_usage,
\* reset_user_usage, the sweep) what surfing_usage.json holds, as
\* _load_usage_data would read it, equals the store in memory, whatever the
\* outcome of the write.
C15_PersistedEqualsMemory == usage_file.data = usage_data

\* some configured sensitive keyword occurs in the text at some position
HasSensitiveKeyword(text) ==
    \E k \in 1..Len(SensitiveWords) :
        \E i \in 1..Len(text) :
            /\ i + Len(SensitiveWords[k]) - 1 <= Len(text)
            /\ \A j \in 1..Len(SensitiveWords[k]) :
                   text[i + j - 1] = SensitiveWords[k][j]

\* some character stands n or more times in a row in the text
HasRun(text, n) ==
    \E i \in 1..(Len(text) - n + 1) :
        \A j \in 1..(n - 1) : text[i + j] = text[i]

\* twice the number of punctuation characters, against the length
TwicePunctuation(text) ==
    2 * Cardinality({i \in 1..Len(text) : text[i] \in PunctuationChars})

\* C17: every text with a configured sensitive keyword in it, at any
\* position and with any text around it, comes out of the quality gate as
\* the sensitive sentinel, also when it is low-quality or too short as well.
C17_SensitiveFirst ==
    (gate.done /\ HasSensitiveKeyword(gate.text))
    => /\ gate.verdict = SentinelSensitive
       /\ gate.diary = SentinelSensitive

\* a text that is low-quality and has a sensitive keyword after 12 other
\* characters is rejected as sensitive
C17_Witness ==
    /\ gate.done
    /\ gate.text = LowQualityCompletion \o SensitiveWords[5]
    /\ IsLowQuality(gate.text)
    /\ gate.verdict = SentinelSensitive

\* C18 as stated: every text in which some character repeats 5 or more
\* times in a row is rejected as low-quality.
C18_AnyRunLowQuality ==
    (gate.done /\ HasRun(gate.text, 5)) => gate.verdict = SentinelLowQuality

\* C18, amended: every text without a sensitive keyword in which some
\* character repeats 5 or more times in a row is rejected as low-quality,
\* however long and well-formed the rest is; a run of 4 alone does not
\* reject a text.
C18_RunLowQuality ==
    gate.done =>
        /\ (HasRun(gate.text, 5) /\ ~HasSensitiveKeyword(gate.text))
            => gate.verdict = SentinelLowQuality
        /\ gate.text = CleanCompletion \o Times(<<"a">>, 4) \o CleanCompletion
            => gate.verdict = gate.text

\* a run of exactly 5 between two well-formed sentences
C18_Witness ==
    /\ gate.done
    /\ gate.text = CleanCompletion \o Times(<<"u597d">>, 5) \o CleanCompletion
    /\ gate.verdict = SentinelLowQuality

\* C19 as stated: every non-empty text with more than half of its
\* characters punctuation is rejected as low-quality.
C19_AnyDenseLowQuality ==
    (gate.done /\ Len(gate.text) > 0
        /\ TwicePunctuation(gate.text) > Len(gate.text))
    => gate.verdict = SentinelLowQuality

\* C19, amended: every non-empty text without a sensitive keyword with more
\* than half of its characters punctuation is rejected as low-quality; a
\* text with exactly half of its characters punctuation and no other flaw
\* is accepted.
C19_DenseLowQuality ==
    gate.done =>
        /\ (Len(gate.text) > 0 /\ ~HasSensitiveKeyword(gate.text)
              /\ TwicePunctuation(gate.text) > Len(gate.text))
            => gate.verdict = SentinelLowQuality
        /\ (TwicePunctuation(gate.text) = Len(gate.text)
              /\ ~HasSensitiveKeyword(gate.text)
              /\ ~HasRun(gate.text, 5)
              /\ ~AnyIn(MeaninglessPatterns, gate.text)
              /\ Len(Strip(gate.text)) >= MinLength)
            => gate.verdict = gate.text

\* 6 of 11 characters are punctuation and the text is rejected
C19_Witness ==
    /\ gate.done
    /\ gate.text = DensePunctuation
    /\ TwicePunctuation(gate.text) = Len(gate.text) + 1
    /\ gate.verdict = SentinelLowQuality

\* C20: an accepted text longer than max_length is returned with length
\* exactly max_length, ending with "..." after its first max_length - 3
\* characters; an accepted text of at most max_length characters is
\* returned unchanged; a text without a flaw is accepted whatever its
\* length.
C20_TruncateAfterAccept ==
    gate.done =>
        LET text       == gate.text
            max_length == gate.max_length
            accepted   == gate.verdict \notin RejectionSentinels
        IN  /\ (accepted /\ Len(text) > max_length)
                => /\ Len(gate.diary) = max_length
                   /\ SubSeq(gate.diary, max_length - 2, max_length) = Chars("...")
                   /\ SubSeq(gate.diary, 1, max_length - 3)
                          = SubSeq(text, 1, max_length - 3)
            /\ (accepted /\ Len(text) <= max_length) => gate.diary = text
            /\ (~HasSensitiveKeyword(text) /\ ~IsLowQuality(text)
                  /\ Len(Strip(text)) >= MinLength)
                => gate.verdict = text

\* a clean text of 306 characters comes back 300 characters long
C20_Witness ==
    /\ gate.done
    /\ gate.text = Times(CleanCompletion, 18)
    /\ gate.max_length = RetryMaxLength
    /\ gate.verdict = gate.text
    /\ Len(gate.diary) = RetryMaxLength

\* C11 as stated: with daily_limit > 0, the on-demand posts published for
\* one user on one date never outnumber daily_limit, also with several
\* invocations of the user in progress at once.
C11_PublicationsWithinLimit ==
    config.surfing_daily_limit > 0 =>
        \A u \in Users, d \in Days : pubs[u][d] <= config.surfing_daily_limit

\* C12: no increment is lost whatever the interleaving of the handlers:
\* the count of every user for the current date is exactly the number of
\* record_usage calls made for the user on that date (no reset, no sweep).
C12_NoLostIncrement ==
    \A u \in Users : GetTodayUsage(usage_data, u, TodayDate) = calls[u]

\* two invocations of one user overlapped: both passed the permission
\* check at count 1 of 2, both recorded, and the count is 3
C12_Witness ==
    /\ config.surfing_daily_limit = 2
    /\ calls["10001"] = 3
    /\ GetTodayUsage(usage_data, "10001", TodayDate) = 3
    /\ \A h \in Handlers :
           /\ req[h].pc = "done"
           /\ req[h].user = "10001"
           /\ req[h].replies = << <<"success", 0>> >>

\* the tags of the failure messages of the handlers: 上网冲浪失败：… for a
\* result with "error", 上网冲浪写说说失败：… from `except Exception`
FailureReplies == {"surf_failed", "handler_failed"}

\* C16 as stated: an invocation in which the search or the generation
\* faulted ends with a failure message to the user, publishes nothing,
\* and has called the generation once.
C16_FaultSurfaced ==
    \A h \in Handlers :
        (req[h].pc = "done" /\ req[h].faulted)
        => /\ req[h].replies # <<>>
           /\ req[h].replies[Len(req[h].replies)][1] \in FailureReplies
           /\ ~req[h].posted
           /\ req[h].genCalls = 1

\* C21 as stated: a raised fault whose class is not network-class gets the
\* retryable verdict that a failure payload with the same message gets.
C21_SameVerdict ==
    (classified.done /\ ~AnyIn(retryable_exceptions, classified.name))
    => classified.fault = classified.payload

\* C22: while the retry loop is in attempt i it has been given the wait
\* min(2^i, 60), which is 1, 2, 4 for the three attempts (attempt 0
\* included); the generation of attempt i is called only from the sleep of
\* attempt i, and its publish only after its generation, so that i sleeps
\* precede the i-th generation call; the wait is capped at 60 from
\* attempt 6 on.
C22_BackoffBeforeAttempt ==
    /\ [](\A i \in Instances :
            ap[i].pc \in RetryPcs =>
                /\ ap[i].attempt \in 0..(max_retries - 1)
                /\ ap[i].wait_time = <<1, 2, 4>>[ap[i].attempt + 1]
                /\ ap[i].pc = "retry_sleep" => ap[i].retryGens = ap[i].attempt
                /\ ap[i].pc # "retry_sleep" => ap[i].retryGens = ap[i].attempt + 1)
    /\ [](\A k \in 0..8 : WaitTime(k) = IF k < 6 THEN 2 ^ k ELSE 60)
    /\ [][\A i \in Instances :
            /\ (ap[i].pc # "retry_gen" /\ ap'[i].pc = "retry_gen")
                => /\ ap[i].pc = "retry_sleep"
                   /\ ap'[i].attempt = ap[i].attempt
                   /\ ap'[i].wait_time = ap[i].wait_time
            /\ (ap[i].pc # "retry_pub" /\ ap'[i].pc = "retry_pub")
                => /\ ap[i].pc = "retry_gen"
                   /\ ap'[i].attempt = ap[i].attempt]_vars

\* the third attempt is generating after a wait of 4 seconds
C22_Witness ==
    /\ ap[1].pc = "retry_gen"
    /\ ap[1].attempt = 2
    /\ ap[1].wait_time = 4
    /\ ap[1].retryGens = 3

\* C23 as stated: the report of exhausted retries (重试3次后仍失败) is
\* emitted only when all max_retries attempts were made without success,
\* never together with the report of a non-retryable abort, and an
\* invocation that recovered emits neither.
C23_ReportIdentifiesState ==
    \A i \in Instances :
        /\ HasLine(ap[i], "retry_exhausted")
            => /\ ~HasLine(ap[i], "retry_stop")
               /\ ap[i].retryGens = max_retries
        /\ HasLine(ap[i], "retry_ok")
            => ~HasLine(ap[i], "retry_exhausted") /\ ~HasLine(ap[i], "retry_stop")

\* C24: when the generator or the publisher raises in the initial attempt
\* of a run, that step adds exactly 1 to failed_runs and the time of the
\* run to total_execution_time, and sets last_run_time; it enters the
\* retry loop (attempt 0, asleep) exactly when the fault is retryable; on
\* a non-retryable fault the run ends with the log entry
\* 遇到不可重试错误，跳过本次任务 and without another generation or publish.
C24_InitialFault ==
    [][\A i \in Instances : \A e \in Faults :
          (ap[i].pc \in {"gen", "pub"} /\ HasLineAbout(ap'[i], "exception", e))
          => /\ ap'[i].stats.failed_runs = ap[i].stats.failed_runs + 1
             /\ ap'[i].stats.successful_runs = ap[i].stats.successful_runs
             /\ ap'[i].stats.total_execution_time =
                    ap[i].stats.total_execution_time + ap[i].elapsed + CallDuration
             /\ ap'[i].stats.last_run_time # <<>>
             /\ IsRetryableError(e)
                    <=> /\ ap'[i].pc = "retry_sleep"
                        /\ ap'[i].attempt = 0
                        /\ HasLine(ap'[i], "retry_try")
             /\ ~IsRetryableError(e)
                    => /\ ap'[i].pc = "idle"
                       /\ HasLine(ap'[i], "nonretryable_skip")
                       /\ ap'[i].pubCalls = ap[i].pubCalls
                       /\ ap'[i].retryGens = 0
                       /\ ap'[i].published = 0]_vars

\* the publisher raised a content fault in the initial attempt: the run is
\* over after one publish call, counted as failed
C24_Witness ==
    /\ ap[1].pc = "idle"
    /\ HasLineAbout(ap[1], "exception", FaultContent)
    /\ HasLine(ap[1], "nonretryable_skip")
    /\ ap[1].pubCalls = 1
    /\ ap[1].stats.failed_runs = 1

\* the text has one of the traits _is_low_quality looks for
HasLowQualityTrait(text) ==
    \/ HasRun(text, 5)
    \/ \E k \in 1..Len(MeaninglessPatterns) : Contains(text, MeaninglessPatterns[k])
    \/ (Len(text) > 0 /\ TwicePunctuation(text) > Len(text))

\* the number of characters between the leading and the trailing white space
TrimmedLength(text) ==
    LET inside == {i \in 1..Len(text) : text[i] \notin Whitespace}
    IN  IF inside = {} THEN 0
        ELSE (CHOOSE i \in inside : \A j \in inside : j <= i)
                 - (CHOOSE i \in inside : \A j \in inside : i <= j) + 1

\* C25: the verdict of the quality gate is this function of the text: the
\* sensitive sentinel if a sensitive keyword occurs, else the low-quality
\* sentinel if the text has a low-quality trait, else the too-short
\* sentinel if fewer than 10 characters remain after trimming, else the
\* text itself; so the first rule that matches wins.
C25_RuleOrder ==
    gate.done =>
        gate.verdict =
            IF HasSensitiveKeyword(gate.text) THEN SentinelSensitive
            ELSE IF HasLowQualityTrait(gate.text) THEN SentinelLowQuality
            ELSE IF TrimmedLength(gate.text) < 10 THEN SentinelTooShort
            ELSE gate.text

\* a text of 5 equal characters is low-quality and too short, and is
\* rejected as low-quality
C25_Witness ==
    /\ gate.done
    /\ gate.text = Times(<<"a">>, 5)
    /\ gate.verdict = SentinelLowQuality

\* C26: a text without a sensitive keyword and without a low-quality trait
\* is rejected as too short exactly when fewer than 10 characters remain
\* after trimming: 9 characters and the empty text are rejected, 10 are
\* accepted.
C26_TooShort ==
    (gate.done /\ ~HasSensitiveKeyword(gate.text) /\ ~HasLowQualityTrait(gate.text))
    => /\ gate.verdict = SentinelTooShort <=> TrimmedLength(gate.text) < 10
       /\ TrimmedLength(gate.text) >= 10 => gate.verdict = gate.text
       /\ gate.text = <<>> => gate.verdict = SentinelTooShort

\* 12 characters of which 9 remain after trimming
C26_Witness ==
    /\ gate.done
    /\ gate.text = <<" ">> \o SubSeq(CleanCompletion, 1, 9) \o <<" ", " ">>
    /\ TrimmedLength(gate.text) = 9
    /\ gate.verdict = SentinelTooShort

\* the records of a store, as <<user, date, count>>
Records(data) ==
    UNION {{<<u, d, data[u][d]>> : d \in DOMAIN data[u]} : u \in DOMAIN data}

\* the dates more than 30 days before `day`, and the dates of the last 30
\* days with `day` itself
DateOfDay ==
    [k \in 1..(CHOOSE d \in SweepDays : \A e \in SweepDays : e <= d) |-> DateStr(k)]
OldDates(day) == {DateOfDay[k] : k \in 1..(day - 31)}
RecentDates(day) == {DateOfDay[k] : k \in (day - 30)..day}

\* the records of a store dated more than 30 days before `day`
OldRecords(data, day) == {r \in Records(data) : r[2] \in OldDates(day)}

\* some record of the store is dated in the month of `date` (YYYY-MM)
RecordedInMonth(data, date) ==
    \E r \in Records(data) : SubSeq(r[2], 1, 7) = SubSeq(date, 1, 7)

\* C27 as stated: the record_usage that is the first of its calendar month
\* sweeps, on whatever day it lands (no record older than 30 days is left),
\* and a later record_usage of the month leaves the old records alone.
C27_SweepOncePerMonth ==
    [][nrecords' = nrecords + 1 =>
          IF ~RecordedInMonth(usage_data, TodayDate)
          THEN OldRecords(usage_data', today) = {}
          ELSE OldRecords(usage_data', today) = OldRecords(usage_data, today)]_vars

\* C27, amended: record_usage sweeps exactly when the call lands on the
\* first day of a month (the date ends in -01): after every such call no
\* record older than 30 days is left, and a call on another day keeps
\* every old record, also when it is the first usage of its month.
C27_SweepOnFirstDay ==
    [][nrecords' = nrecords + 1 =>
          IF SubSeq(TodayDate, 9, 10) = Chars("01")
          THEN OldRecords(usage_data', today) = {}
          ELSE OldRecords(usage_data', today) = OldRecords(usage_data, today)]_vars

\* the first usage of March lands on 03-02 and the record of 01-15 is
\* still in the store
C27_Witness ==
    /\ today = 61
    /\ nrecords = 1
    /\ "10001" \in DOMAIN usage_data
    /\ DOMAIN usage_data["10001"] = {DateStr(16), DateStr(61)}

HasCount(data, u, d) == u \in DOMAIN data /\ d \in DOMAIN data[u]

\* C29: every count of the store is an integer >= 1; from one state to the
\* next a count stays, or disappears, or grows by exactly 1, and it grows
\* only in a record_usage of its user on its date; a count that appears is
\* 1 and is the count of the recorded user for today; every record_usage
\* makes the count of its user for today 1 larger.
C29_CountsOnlyGrow ==
    /\ [](\A u \in DOMAIN usage_data : \A d \in DOMAIN usage_data[u] :
              usage_data[u][d] \in Int /\ usage_data[u][d] >= 1)
    /\ [][/\ \A u \in DOMAIN usage_data : \A d \in DOMAIN usage_data[u] :
               \/ ~HasCount(usage_data', u, d)
               \/ usage_data'[u][d] = usage_data[u][d]
               \/ /\ usage_data'[u][d] = usage_data[u][d] + 1
                  /\ nrecords' = nrecords + 1
                  /\ calls'[u] = calls[u] + 1
                  /\ d = TodayDate
          /\ \A u \in DOMAIN usage_data' : \A d \in DOMAIN usage_data'[u] :
               ~HasCount(usage_data, u, d)
               => /\ usage_data'[u][d] = 1
                  /\ nrecords' = nrecords + 1
                  /\ calls'[u] = calls[u] + 1
                  /\ d = TodayDate
          /\ \A u \in Users :
               (nrecords' = nrecords + 1 /\ calls'[u] = calls[u] + 1)
               => /\ HasCount(usage_data', u, TodayDate)
                  /\ usage_data'[u][TodayDate] =
                        IF HasCount(usage_data, u, TodayDate)
                        THEN usage_data[u][TodayDate] + 1 ELSE 1]_vars

\* a count of 3 after three record_usage calls of one user on one date
C29_Witness ==
    /\ calls["10002"] = 3
    /\ HasCount(usage_data, "10002", TodayDate)
    /\ usage_data["10002"][TodayDate] = 3

\* C30: every on-demand invocation that passed the permission check and
\* started its generation leaves the count of its user for today exactly 1
\* larger when it ends, whatever generation and publish did: the step that
\* ends the invocation is the step that records the usage.
C30_EveryInvocationCounted ==
    [][\A h \in Handlers :
         (req[h].pc \notin {"idle", "done"} /\ req'[h].pc = "done"
            /\ req'[h].genCalls = 1)
         => /\ HasCount(usage_data', req'[h].user, TodayDate)
            /\ usage_data'[req'[h].user][TodayDate] =
                 IF HasCount(usage_data, req'[h].user, TodayDate)
                 THEN usage_data[req'[h].user][TodayDate] + 1 ELSE 1]_vars

\* C31: the quota consults the count of the current date only.  When the
\* date advances the store stays as it was, and a user the access mode
\* admits whose count had reached daily_limit (> 0) on the previous date is
\* allowed by check_permission and has daily_limit uses remaining; and
\* every answer of check_permission to an admitted user who has no record
\* for today is (True, ""), whatever the user's counts on earlier dates.
C31_OnlyToday ==
    /\ [](\A u \in Users :
             (/\ result # <<>>
              /\ result[1] = "check_permission"
              /\ result[2] = u
              /\ Admitted(u)
              /\ ~HasCount(usage_data, u, TodayDate))
             => result[3] = <<TRUE, <<>> >>)
    /\ [][today' # today
          => /\ usage_data' = usage_data
             /\ \A u \in Users :
                  (/\ Admitted(u)
                   /\ config.surfing_daily_limit > 0
                   /\ GetTodayUsage(usage_data, u, TodayDate)
                          >= config.surfing_daily_limit)
                  => /\ CheckPermission(usage_data', config', u, TodayDate')
                            = <<TRUE, <<>> >>
                     /\ GetRemainingUsage(usage_data', config', u, TodayDate')
                            = config.surfing_daily_limit
                     /\ usage_data'[u][TodayDate] = usage_data[u][TodayDate]]_vars

\* a user who used up the limit of 3 on 01-31 is allowed on a later day,
\* with the record of 01-31 still in the store
C31_Witness ==
    /\ today > 31
    /\ config.surfing_daily_limit = 3
    /\ HasCount(usage_data, "10002", DateOfDay[31])
    /\ usage_data["10002"][DateOfDay[31]] = 3
    /\ result = <<"check_permission", "10002", <<TRUE, <<>> >> >>

\* the counters of self.stats
RunCounters ==
    {"total_runs", "successful_runs", "failed_runs", "filtered_content",
     "retry_attempts", "total_execution_time"}

\* C32: no step of run_once or of _retry_publish makes total_runs,
\* successful_runs, failed_runs, filtered_content, retry_attempts or
\* total_execution_time smaller, and none of them is ever negative.
C32_CountersMonotone ==
    /\ [](\A i \in Instances : \A c \in RunCounters : ap[i].stats[c] >= 0)
    /\ [][\A i \in Instances : \A c \in RunCounters :
             ap'[i].stats[c] >= ap[i].stats[c]]_vars

\* after a successful run of two calls, a second run was filtered after one
C32_Witness ==
    /\ ap[1].pc = "idle"
    /\ ap[1].stats.total_runs = 2
    /\ ap[1].stats.successful_runs = 1
    /\ ap[1].stats.filtered_content = 1
    /\ ap[1].stats.total_execution_time = 3 * CallDuration
    /\ HasLine(ap[1], "filtered")

\* C33: retry_attempts counts the attempts of the retry loop: a step adds
\* one to it exactly when it starts an attempt of _retry_publish (the line
\* "retry_try" is logged), so that a run without a retry, such as a run
\* whose content was filtered, leaves it unchanged.
C33_RetryAttemptsCountRetries ==
    [][\A i \in Instances :
          ap'[i] # ap[i]
          => ap'[i].stats.retry_attempts =
                 ap[i].stats.retry_attempts
                     + (IF HasLine(ap'[i], "retry_try") THEN 1 ELSE 0)]_vars

\* the awaits of the initial attempt of run_once
InitialPcs == {"gen", "pub"}

\* C34: the step that ends the initial attempt of a run (success, filtered
\* content, failed publish or caught exception) adds the time the run took
\* so far to total_execution_time and stores the time of the run in
\* last_run_time; no other step changes either of them.  last_run_time is
\* None exactly as long as no run has ended its initial attempt.
C34_TimeRecordedOnce ==
    /\ [](\A i \in Instances :
             LET ended == IF ap[i].pc \in InitialPcs
                          THEN ap[i].stats.total_runs - 1
                          ELSE ap[i].stats.total_runs
             IN  /\ ap[i].stats.last_run_time = <<>> <=> ended = 0
                 /\ ended > 0 => ap[i].stats.last_run_time = <<ended>>)
    /\ [][\A i \in Instances :
             IF ap[i].pc \in InitialPcs /\ ap'[i].pc \notin InitialPcs
             THEN /\ ap'[i].stats.total_execution_time =
                        ap[i].stats.total_execution_time
                            + ap[i].elapsed + CallDuration
                  /\ ap'[i].stats.last_run_time = <<ap[i].stats.total_runs>>
             ELSE /\ ap'[i].stats.total_execution_time =
                        ap[i].stats.total_execution_time
                  /\ ap'[i].stats.last_run_time = ap[i].stats.last_run_time]_vars

\* a run recovered by its first retry: the time of its two initial calls
\* is what was recorded
C34_Witness ==
    /\ ap[1].pc = "idle"
    /\ HasLine(ap[1], "retry_ok")
    /\ ap[1].retryGens = 1
    /\ ap[1].stats.total_runs = 1
    /\ ap[1].stats.total_execution_time = 2 * CallDuration
    /\ ap[1].stats.last_run_time = <<1>>

\* C35: when the task of a run is cancelled during the backoff sleep of
\* _retry_publish, the activation ends in that step with the cancellation
\* leaving run_once: the step makes no call of llm.generate_diary or of
\* qzone.publish, starts no further attempt, logs nothing, and changes
\* neither self.stats nor the usage store or its file; a cancelled
\* activation stays ended.
C35_CancelWithoutEffect ==
    /\ [](\A i \in Instances :
             ap[i].cancelled
             => ap[i].pc = "idle" /\ ap[i].raised = <<FaultCancelled>>)
    /\ [][\A i \in Instances :
             (~ap[i].cancelled /\ ap'[i].cancelled)
             => /\ ap[i].pc = "retry_sleep"
                /\ ap'[i].pc = "idle"
                /\ ap'[i].stats = ap[i].stats
                /\ ap'[i].retryGens = ap[i].retryGens
                /\ ap'[i].retryPubs = ap[i].retryPubs
                /\ ap'[i].pubCalls = ap[i].pubCalls
                /\ ap'[i].published = ap[i].published
                /\ ap'[i].out = <<>>
                /\ usage_data' = usage_data
                /\ usage_file' = usage_file]_vars

\* a run cancelled in the sleep before its second retry attempt
C35_Witness ==
    /\ ap[1].cancelled
    /\ ap[1].pc = "idle"
    /\ ap[1].retryGens = 1
    /\ ap[1].stats.failed_runs = 1
    /\ ap[1].raised = <<FaultCancelled>>

\* the usage store, its file and the bookkeeping of the quota manager
UsageStore == <<usage_data, usage_file, calls, nrecords>>

\* C36: the scheduled path and the on-demand path leave each other's state
\* alone.  A step of run_once or of _retry_publish (a step that changes an
\* AutoPublish object) changes neither the usage store nor its file nor an
\* on-demand invocation; a step of an on-demand handler, with its
\* check_permission and record_usage, or of reset_user_usage (a step that
\* changes an invocation or the usage store) changes no AutoPublish object,
\* so that self.stats stays as it was.
C36_PathsDisjoint ==
    [][/\ ap' # ap => UNCHANGED <<UsageStore, config, today, req, pubs>>
       /\ (UsageStore' # UsageStore \/ req' # req)
          => \A i \in Instances : ap'[i] = ap[i]]_vars

\* a usage was recorded by the command while a scheduled run that had
\* failed once was in its backoff sleep
C36_Witness ==
    /\ ap[1].pc = "retry_sleep"
    /\ ap[1].stats.failed_runs = 1
    /\ req[1].pc = "done"
    /\ HasCount(usage_data, "10002", TodayDate)
    /\ ap[1].stats.total_runs = 1

\* the runs counted in one of the three outcome counters
OutcomesCounted(stats) ==
    stats.successful_runs + stats.failed_runs + stats.filtered_content

\* C37: for every AutoPublish object, total_runs equals successful_runs +
\* failed_runs + filtered_content whenever no run is executing, and also
\* while a run is in its retry loop; while a run is in its initial attempt,
\* its outcome not yet counted, total_runs is larger by exactly 1 (at most
\* one run is in flight).  A step raises at most one of the three outcome
\* counters, by exactly 1, and does so exactly when it ends the initial
\* attempt of a run, so that no run is counted twice; total_runs grows by 1
\* exactly when a run starts.
C37_RunsAccounted ==
    /\ [](\A i \in Instances :
             ap[i].stats.total_runs =
                 OutcomesCounted(ap[i].stats)
                     + (IF ap[i].pc \in InitialPcs THEN 1 ELSE 0))
    /\ [][\A i \in Instances :
             LET old == ap[i].stats
                 new == ap'[i].stats
                 ends == ap[i].pc \in InitialPcs /\ ap'[i].pc \notin InitialPcs
             IN  /\ new.successful_runs - old.successful_runs \in {0, 1}
                 /\ new.failed_runs - old.failed_runs \in {0, 1}
                 /\ new.filtered_content - old.filtered_content \in {0, 1}
                 /\ OutcomesCounted(new) =
                        OutcomesCounted(old) + (IF ends THEN 1 ELSE 0)
                 /\ new.total_runs =
                        old.total_runs
                            + (IF ap[i].pc = "idle" /\ ap'[i].pc # "idle"
                               THEN 1 ELSE 0)]_vars

\* a second run is in its initial attempt after the first was filtered
C37_Witness ==
    /\ ap[1].pc = "pub"
    /\ ap[1].stats.total_runs = 2
    /\ ap[1].stats.filtered_content = 1
    /\ OutcomesCounted(ap[1].stats) = 1

WithoutUser(data, u) == [v \in DOMAIN data \ {u} |-> data[v]]

\* C39: a step of reset_user_usage (no usage is recorded, the date stays,
\* and nothing is returned) is the reset of one user u: every record of u,
\* of whatever date, is gone and the records of every other user are as
\* they were; u's count for today then reads 0, u has the full
\* daily_limit remaining, and check_permission allows u if the access
\* mode admits u.  If u had no record, the store and its file are
\* unchanged.
C39_ResetRemovesUser ==
    [][(nrecords' = nrecords /\ today' = today /\ result' = <<>>)
       => \E u \in Users :
            /\ usage_data' = WithoutUser(usage_data, u)
            /\ \A v \in Users \ {u} : calls'[v] = calls[v]
            /\ calls'[u] = 0
            /\ GetTodayUsage(usage_data', u, TodayDate) = 0
            /\ GetRemainingUsage(usage_data', config, u, TodayDate) =
                   IF config.surfing_daily_limit > 0
                   THEN config.surfing_daily_limit ELSE -1
            /\ Admitted(u) =>
                   CheckPermission(usage_data', config, u, TodayDate)
                       = <<TRUE, <<>> >>
            /\ u \notin DOMAIN usage_data
               => usage_data' = usage_data /\ usage_file' = usage_file]_vars

\* after three recorded usages a user was reset on 02-01 and is allowed by
\* check_permission; the other user's record of 01-31 is still in the store
C39_Witness ==
    /\ today = 32
    /\ nrecords = 3
    /\ config.surfing_daily_limit = 2
    /\ calls["10002"] = 0
    /\ "10002" \notin DOMAIN usage_data
    /\ HasCount(usage_data, "10001", DateOfDay[31])
    /\ result = <<"check_permission", "10002", <<TRUE, <<>> >> >>

\* C40: once QzonePlugin.terminate has returned, no scheduler that was
\* created for the publication job holds its job, and no run_once starts:
\* total_runs of every AutoPublish object stays as it is.
C40_NoRunAfterTerminate ==
    /\ [](terminated => \A i \in Instances : ~ap[i].job)
    /\ [][terminated
          => \A i \in Instances :
                ap'[i].stats.total_runs = ap[i].stats.total_runs]_vars

====
